---- MODULE Spec2Model ----
(***************************************************************************)
(* Operator algebra and forward-mode linearization engine of NIFTy:        *)
(* MultiDomain interning, Field/MultiField values, the nonlinear operator  *)
(* combinators (_OpChain, _OpSum, _OpProd, _ConstantOperator,              *)
(* _FunctionApplier), Linearization and constant folding.                  *)
(*                                                                         *)
(* Every field holds one number per key.  A DomainTuple is kept under the  *)
(* single slot NoKey, a MultiDomain under its string keys, so both kinds   *)
(* of domain are functions from slots to DomainTuple names.  A linear      *)
(* operator is kept together with the matrix it denotes.                   *)
(***************************************************************************)
EXTENDS Integers, Sequences, FiniteSets, TLC

-----------------------------------------------------------------------------
(* Bounds *)

\* largest number of leaves of the operator graphs that are built
MaxLeaves == 3
\* largest absolute value a field entry may take before it counts as not representable
ValCap == 40
\* number of threads calling MultiDomain.make / evaluating a chain concurrently
NumThreads == 2
\* number of MultiDomain objects that may be allocated
MaxObjs == 3
\* number of operations applied to the Linearization at hand
MaxLinSteps == 2
\* number of MultiDomain objects that exist when unions are taken
MaxDomains == 3
\* largest number of MultiDomains handed to one call of MultiDomain.union
MaxUnionInputs == 3
\* number of passes through the loop of ConjugateGradient.__call__
MaxCgIters == 3
\* the argument maxdepth of generate_nuts_sample
maxdepth == 4
\* largest iteration limit maxiter handed to the jax solver _cg
MaxJcgIter == 3

-----------------------------------------------------------------------------
(* Domains *)

NoKey == "_"
Keys == {"a", "b"}
DTNames == {"D", "E"}

MkDT(dt) == [k \in {NoKey} |-> dt]
IsMulti(d) == NoKey \notin DOMAIN d
IsDT(d) == ~IsMulti(d)
EmptyMD == [k \in {} |-> "D"]

\* all MultiDomains over the keys, all DomainTuples
MultiDomains == UNION {[K -> DTNames] : K \in SUBSET Keys}
DomainTuples == {MkDT(dt) : dt \in DTNames}

\* MultiDomain.union: the merged mapping, or a ValueError on a conflicting key
UnionConflict(d1, d2) == \E k \in DOMAIN d1 \cap DOMAIN d2 : d1[k] # d2[k]
UnionMap(d1, d2) ==
    [k \in DOMAIN d1 \cup DOMAIN d2 |-> IF k \in DOMAIN d1 THEN d1[k] ELSE d2[k]]
MultiDomain_union(d1, d2) ==
    IF d1 = d2 THEN [err |-> "", dom |-> d1]
    ELSE IF UnionConflict(d1, d2) THEN [err |-> "ValueError", dom |-> EmptyMD]
    ELSE [err |-> "", dom |-> UnionMap(d1, d2)]

\* sugar.domain_union of two domains
domain_union(d1, d2) ==
    IF IsDT(d1)
    THEN IF d2 # d1 THEN [err |-> "ValueError", dom |-> EmptyMD]
         ELSE [err |-> "", dom |-> d1]
    ELSE IF IsDT(d2) THEN [err |-> "AttributeError", dom |-> EmptyMD]
    ELSE MultiDomain_union(d1, d2)

-----------------------------------------------------------------------------
(* Numbers: integers within ValCap; Unrep stands for every value that is   *)
(* not an integer within the cap (exp away from 0, overflow of the cap).   *)

Unrep == ValCap + 1
Norm(v) == IF v > ValCap \/ v < -ValCap THEN Unrep ELSE v
VAdd(x, y) == IF x = Unrep \/ y = Unrep THEN Unrep ELSE Norm(x + y)
VMul(x, y) == IF x = Unrep \/ y = Unrep THEN Unrep ELSE Norm(x * y)
VNeg(x) == IF x = Unrep THEN Unrep ELSE -x

RECURSIVE VSum(_, _)
VSum(S, F) ==
    IF S = {} THEN 0
    ELSE LET k == CHOOSE k \in S : TRUE IN VAdd(F[k], VSum(S \ {k}, F))

-----------------------------------------------------------------------------
(* Field / MultiField values *)

MkField(d, v) == [dom |-> d, val |-> v]
EmptyField == MkField(EmptyMD, [k \in {} |-> 0])
FieldsOn(d, Vals) == {MkField(d, v) : v \in [DOMAIN d -> Vals]}
FullField(d, c) == MkField(d, [k \in DOMAIN d |-> c])
FieldRep(f) == \A k \in DOMAIN f.val : f.val[k] # Unrep

\* MultiField.extract(subset): the sub-field on subset (every key must be present)
extract(f, d) == MkField(d, [k \in DOMAIN d |-> f.val[k]])
\* MultiField.extract_part(subset): the sub-field on the keys of subset that f has
extract_part(f, d) ==
    IF d = f.dom THEN f
    ELSE LET K == DOMAIN d \cap DOMAIN f.dom
         IN MkField([k \in K |-> f.dom[k]], [k \in K |-> f.val[k]])
\* MultiField.unite / flexible_addsub(other, False): merge, adding on shared keys
unite(f, g) ==
    LET K == DOMAIN f.dom \cup DOMAIN g.dom
    IN MkField([k \in K |-> IF k \in DOMAIN f.dom THEN f.dom[k] ELSE g.dom[k]],
               [k \in K |-> IF k \in DOMAIN f.dom /\ k \in DOMAIN g.dom
                            THEN VAdd(f.val[k], g.val[k])
                            ELSE IF k \in DOMAIN f.dom THEN f.val[k] ELSE g.val[k]])
FieldMul(f, g) == MkField(f.dom, [k \in DOMAIN f.dom |-> VMul(f.val[k], g.val[k])])
FieldNeg(f) == MkField(f.dom, [k \in DOMAIN f.dom |-> VNeg(f.val[k])])

-----------------------------------------------------------------------------
(* Elementwise functions: ptw_dict maps a name to (forward, forward+derivative) *)

PtwNames == {"exp", "absolute"}
Abs(v) == IF v < 0 THEN -v ELSE v
Sign(v) == IF v < 0 THEN -1 ELSE IF v > 0 THEN 1 ELSE 0
\* ptw_dict[name][0]
PtwFwd(name, v) ==
    IF v = Unrep THEN Unrep
    ELSE IF name = "exp" THEN (IF v = 0 THEN 1 ELSE Unrep)
    ELSE Abs(v)
PtwDerivMutSignAtZero(name, v) ==
    IF v = Unrep THEN Unrep
    ELSE IF name = "exp" THEN (IF v = 0 THEN 1 ELSE Unrep)
    ELSE Sign(v)
\* ptw_dict[name][1](v)[1]
PtwDeriv(name, v) ==
    IF v = Unrep THEN Unrep
    ELSE IF name = "exp" THEN (IF v = 0 THEN 1 ELSE Unrep)
    ELSE (IF v = 0 THEN Unrep ELSE Sign(v))
FieldPtw(name, f) == MkField(f.dom, [k \in DOMAIN f.dom |-> PtwFwd(name, f.val[k])])
FieldPtwDeriv(name, f) == MkField(f.dom, [k \in DOMAIN f.dom |-> PtwDeriv(name, f.val[k])])

-----------------------------------------------------------------------------
(* Linear operators, kept with the matrix they denote: mat[<<t, d>>] is the *)
(* entry from slot d of the domain to slot t of the target.                 *)

MkLin(cls, d, t, m, fac) == [cls |-> cls, dom |-> d, tgt |-> t, mat |-> m, factor |-> fac]
NoneOp == MkLin("None", EmptyMD, EmptyMD, [p \in {} |-> 0], 0)
ScalarDT == MkDT("S")

ScalingOperator(d, fac) ==
    MkLin("ScalingOperator", d, d,
          [p \in (DOMAIN d) \X (DOMAIN d) |-> IF p[1] = p[2] THEN fac ELSE 0], fac)
NullOperator(d, t) ==
    MkLin("NullOperator", d, t, [p \in (DOMAIN t) \X (DOMAIN d) |-> 0], 0)
\* sugar.makeOp(field): the diagonal operator with the field on its diagonal
makeOp(f) ==
    MkLin("DiagonalOperator", f.dom, f.dom,
          [p \in (DOMAIN f.dom) \X (DOMAIN f.dom) |-> IF p[1] = p[2] THEN f.val[p[1]] ELSE 0], 0)
\* BlockDiagonalOperator(domain, ops) of ScalingOperators with the given factors
BlockDiagonalOperator(d, facs) ==
    MkLin("BlockDiagonalOperator", d, d,
          [p \in (DOMAIN d) \X (DOMAIN d) |-> IF p[1] = p[2] THEN facs[p[1]] ELSE 0], 0)
\* VdotOperator(field): x |-> field.vdot(x), onto the scalar domain
VdotOperator(f) ==
    MkLin("VdotOperator", f.dom, ScalarDT,
          [p \in {NoKey} \X (DOMAIN f.dom) |-> f.val[p[2]]], 0)

\* a structural zero of the left factor contributes nothing to a matrix product
Term(x, y) == IF x = 0 \/ y = 0 THEN 0 ELSE VMul(x, y)
\* LinearOperator.__call__(LinearOperator): the lazy chain A o B
LinChain(A, B) ==
    MkLin("ChainOperator", B.dom, A.tgt,
          [p \in (DOMAIN A.tgt) \X (DOMAIN B.dom) |->
              VSum(DOMAIN A.dom \cap DOMAIN B.tgt,
                   [k \in DOMAIN A.dom \cap DOMAIN B.tgt |->
                       Term(A.mat[<<p[1], k>>], B.mat[<<k, p[2]>>])])], 0)
\* LinearOperator._myadd(other, neg): the lazy sum over the united domains/targets
Entry(A, p) == IF p \in DOMAIN A.mat THEN A.mat[p] ELSE 0
LinSum(A, B, neg) ==
    LET d == UnionMap(A.dom, B.dom)
        t == UnionMap(A.tgt, B.tgt)
    IN MkLin("SumOperator", d, t,
             [p \in (DOMAIN t) \X (DOMAIN d) |->
                 VAdd(Entry(A, p), IF neg THEN VNeg(Entry(B, p)) ELSE Entry(B, p))], 0)
\* LinearOperator.scale(factor)
LinScale(A, fac) ==
    MkLin("ChainOperator", A.dom, A.tgt, [p \in DOMAIN A.mat |-> VMul(fac, A.mat[p])], 0)
\* LinearOperator.adjoint
LinAdjoint(A) ==
    MkLin("OperatorAdapter", A.tgt, A.dom,
          [p \in (DOMAIN A.dom) \X (DOMAIN A.tgt) |-> A.mat[<<p[2], p[1]>>]], 0)
\* SandwichOperator.make(bun, cheese): bun.adjoint(cheese(bun))
SandwichOperator_make(bun, cheese) ==
    LET op == LinChain(LinAdjoint(bun), LinChain(cheese, bun))
    IN MkLin("SandwichOperator", op.dom, op.tgt, op.mat, 0)
\* LinearOperator.times(x)
LinTimes(A, f) ==
    MkField(A.tgt, [t \in DOMAIN A.tgt |->
        VSum(DOMAIN A.dom, [k \in DOMAIN A.dom |-> Term(A.mat[<<t, k>>], f.val[k])])])
LinRep(A) == \A p \in DOMAIN A.mat : A.mat[p] # Unrep
\* two linear operators denote the same map
SameMap(A, B) == A.dom = B.dom /\ A.tgt = B.tgt /\ A.mat = B.mat

-----------------------------------------------------------------------------
(* Field-like objects: a Field has jac = None; a Linearization has a       *)
(* Jacobian and possibly a metric.  err names the exception a call raised. *)

MkObj(v, j, m, wm, e) == [val |-> v, jac |-> j, metric |-> m, want_metric |-> wm, err |-> e]
FieldObj(f) == MkObj(f, NoneOp, NoneOp, FALSE, "")
ErrObj(e) == MkObj(EmptyField, NoneOp, NoneOp, FALSE, e)
IsLin(x) == x.jac # NoneOp

\* Linearization.__init__
LinearizationMutNoCheck(val, jac, metric, want_metric) ==
    MkObj(val, jac, metric, want_metric, "")
Linearization(val, jac, metric, want_metric) ==
    IF val.dom # jac.tgt THEN ErrObj("ValueError")
    ELSE MkObj(val, jac, metric, want_metric, "")
\* Linearization.new
new(x, val, jac, metric) == Linearization(val, jac, metric, x.want_metric)
\* Linearization.domain / target
LinDomain(x) == x.jac.dom
LinTarget(x) == x.jac.tgt

make_var(f, wm) == Linearization(f, ScalingOperator(f.dom, 1), NoneOp, wm)
make_const(f, wm) == Linearization(f, NullOperator(f.dom, f.dom), NoneOp, wm)
make_partial_varMutAllVar(f, constants, wm) == make_var(f, wm)
make_partial_var(f, constants, wm) ==
    IF constants = {} THEN make_var(f, wm)
    ELSE Linearization(f,
            BlockDiagonalOperator(f.dom, [k \in DOMAIN f.dom |-> IF k \in constants THEN 0 ELSE 1]),
            NoneOp, wm)
add_metric(x, metric) == new(x, x.val, x.jac, metric)

\* Linearization.__neg__
Lin_neg(x) ==
    new(x, FieldNeg(x.val), LinScale(x.jac, -1),
        IF x.metric = NoneOp THEN NoneOp ELSE LinScale(x.metric, -1))
\* Linearization._myadd with a Linearization
Lin_myaddMutKeepMetric(x, other, neg) ==
    new(x, unite(x.val, IF neg THEN FieldNeg(other.val) ELSE other.val),
        LinSum(x.jac, other.jac, neg), x.metric)
Lin_myadd(x, other, neg) ==
    LET met == IF x.metric # NoneOp /\ other.metric # NoneOp
               THEN LinSum(x.metric, other.metric, neg) ELSE NoneOp
    IN new(x, unite(x.val, IF neg THEN FieldNeg(other.val) ELSE other.val),
           LinSum(x.jac, other.jac, neg), met)
\* Linearization._myadd with a Field / MultiField
Lin_addFieldMutDropMetric(x, f, neg) ==
    new(x, unite(x.val, IF neg THEN FieldNeg(f) ELSE f), x.jac, NoneOp)
Lin_addField(x, f, neg) ==
    new(x, unite(x.val, IF neg THEN FieldNeg(f) ELSE f), x.jac, x.metric)
\* Linearization.__mul__ with a Linearization
Lin_mul(x, other) ==
    IF LinTarget(x) # LinTarget(other) THEN ErrObj("ValueError")
    ELSE new(x, FieldMul(x.val, other.val),
             LinSum(LinChain(makeOp(other.val), x.jac),
                    LinChain(makeOp(x.val), other.jac), FALSE), NoneOp)
\* Linearization.trivial_jac / prepend_jac / ptw
trivial_jac(x) == make_var(x.val, x.want_metric)
prepend_jac(x, jac) ==
    IF x.err # "" THEN x
    ELSE new(x, x.val, LinChain(x.jac, jac),
             IF x.metric = NoneOp THEN NoneOp ELSE SandwichOperator_make(jac, x.metric))
Lin_ptw(x, name) ==
    new(x, FieldPtw(name, x.val), LinChain(makeOp(FieldPtwDeriv(name, x.val)), x.jac), NoneOp)

ObjRep(x) ==
    /\ FieldRep(x.val)
    /\ LinRep(x.jac)
    /\ LinRep(x.metric)

-----------------------------------------------------------------------------
(* Operators.  ops holds the leaves of an _OpChain, or <<op1, op2>> of an   *)
(* _OpSum / _OpProd; out is the stored output of a _ConstantOperator; err   *)
(* names the exception the constructor raised (then no object exists).      *)

MkOp(kind, fn, ops, d, t, out) ==
    [kind |-> kind, fn |-> fn, ops |-> ops, dom |-> d, tgt |-> t, out |-> out, err |-> ""]
ErrOp(e) ==
    [kind |-> "", fn |-> "", ops |-> <<>>, dom |-> EmptyMD, tgt |-> EmptyMD,
     out |-> EmptyField, err |-> e]

\* FieldAdapter(target, name): from the MultiDomain {name: dt} to the DomainTuple dt
\* (toField) or back
FieldAdapter(name, dt, toField) ==
    LET md == [k \in {name} |-> dt]
    IN IF toField THEN MkOp("FieldAdapter", name, <<>>, md, MkDT(dt), EmptyField)
       ELSE MkOp("FieldAdapter", name, <<>>, MkDT(dt), md, EmptyField)
\* _FunctionApplier.__init__
FunctionApplier(d, funcname) == MkOp("_FunctionApplier", funcname, <<>>, d, d, EmptyField)
\* a likelihood energy leaf: scalar target, attaches a metric when one is wanted
EnergyLeaf(d) == MkOp("Energy", "", <<>>, d, ScalarDT, EmptyField)
\* _ConstantOperator.__init__
ConstantOperatorMutOwnDomain(d, output) ==
    MkOp("_ConstantOperator", "", <<>>, output.dom, output.dom, output)
ConstantOperator(d, output) == MkOp("_ConstantOperator", "", <<>>, d, output.dom, output)

\* Operator.identity_operator(dom): the BlockDiagonalOperator of ScalingOperator(dd, 1)
identity_operator(d) == MkOp("BlockDiagonalOperator", "identity", <<>>, d, d, EmptyField)

\* the leaves that are LinearOperators (their own @ and + build linear operators)
IsLinearOperator(op) == op.kind = "FieldAdapter"

\* _CombinedOperator.unpack for cls = _OpChain
RECURSIVE unpack(_, _)
unpackMutNoFlatten(ops, res) == res \o ops
unpack(ops, res) ==
    IF ops = <<>> THEN res
    ELSE LET op == Head(ops)
         IN unpack(Tail(ops),
                   IF op.kind = "_OpChain" THEN unpack(op.ops, res) ELSE Append(res, op))

\* _OpChain.__init__
OpChain_initMutNoCheck(ops) ==
    MkOp("_OpChain", "", ops, ops[Len(ops)].dom, ops[1].tgt, EmptyField)
OpChain_initMutDomain(ops) ==
    IF \E i \in 2..Len(ops) : ops[i-1].dom # ops[i].tgt THEN ErrOp("ValueError")
    ELSE MkOp("_OpChain", "", ops, ops[1].dom, ops[1].tgt, EmptyField)
OpChain_init(ops) ==
    IF \E i \in 2..Len(ops) : ops[i-1].dom # ops[i].tgt THEN ErrOp("ValueError")
    ELSE MkOp("_OpChain", "", ops, ops[Len(ops)].dom, ops[1].tgt, EmptyField)
\* _CombinedOperator.make for cls = _OpChain
OpChain_make(ops) ==
    LET res == unpack(ops, <<>>)
    IN IF Len(res) = 1 THEN res[1] ELSE OpChain_init(res)
\* Operator.__matmul__
matmul(op, x) == OpChain_make(<<op, x>>)

\* _OpProd.__init__
OpProd_init(op1, op2) ==
    LET du == domain_union(op1.dom, op2.dom)
    IN IF du.err # "" THEN ErrOp(du.err)
       ELSE IF op1.tgt # op2.tgt THEN ErrOp("ValueError")
       ELSE MkOp("_OpProd", "", <<op1, op2>>, du.dom, op1.tgt, EmptyField)
\* _OpSum.__init__
OpSum_init(op1, op2) ==
    LET du == domain_union(op1.dom, op2.dom)
        tu == domain_union(op1.tgt, op2.tgt)
    IN IF du.err # "" THEN ErrOp(du.err)
       ELSE IF tu.err # "" THEN ErrOp(tu.err)
       ELSE MkOp("_OpSum", "", <<op1, op2>>, du.dom, tu.dom, EmptyField)

\* the part of the domain d on the keys K
Restrict(d, K) == [k \in K |-> d[k]]
\* Operator.partial_insert
partial_insert(self, x) ==
    IF ~IsMulti(self.dom) THEN ErrOp("TypeError")
    ELSE IF ~IsMulti(x.tgt) THEN ErrOp("TypeError")
    ELSE LET bigdom == MultiDomain_union(self.dom, x.tgt)
             k1 == DOMAIN self.dom
             k2 == DOMAIN x.tgt
             le == k2 \ k1
             ri == k1 \ k2
             riop == IF ri # {} THEN OpSum_init(x, identity_operator(Restrict(bigdom.dom, ri)))
                     ELSE x
             leop == IF le # {} THEN OpSum_init(self, identity_operator(Restrict(bigdom.dom, le)))
                     ELSE self
         IN IF bigdom.err # "" THEN ErrOp(bigdom.err)
            ELSE IF riop.err # "" THEN riop
            ELSE IF leop.err # "" THEN leop
            ELSE matmul(leop, riop)

\* number of leaves of a graph
RECURSIVE NumLeaves(_), NumLeavesSeq(_)
NumLeaves(op) == IF op.ops = <<>> THEN 1 ELSE NumLeavesSeq(op.ops)
NumLeavesSeq(ops) ==
    IF ops = <<>> THEN 0 ELSE NumLeaves(Head(ops)) + NumLeavesSeq(Tail(ops))

-----------------------------------------------------------------------------
(* Evaluation *)

\* an object without a value: an Operator that is no Field, MultiField or
\* Linearization (its val is None), or no Operator at all
NoneVal == [dom |-> [k \in {"None"} |-> "None"], val |-> [k \in {"None"} |-> 0]]
PlainOperator == MkObj(NoneVal, NoneOp, NoneOp, FALSE, "")
NoneObj == ErrObj("")

\* Operator._check_input
check_inputMutNoJac(op, x) ==
    IF x.val = NoneVal THEN "TypeError"
    ELSE IF op.dom # x.val.dom THEN "ValueError"
    ELSE ""
check_input(op, x) ==
    IF x.val = NoneVal THEN "TypeError"
    ELSE IF x.jac # NoneOp /\ x.jac.cls # "ScalingOperator" THEN "ValueError"
    ELSE IF x.jac # NoneOp /\ x.jac.factor # 1 THEN "ValueError"
    ELSE IF op.dom # x.val.dom THEN "ValueError"
    ELSE ""

\* FieldAdapter.apply in mode TIMES, and the matrix of the adapter
AdapterTimes(op, f) ==
    MkField(op.tgt, [t \in DOMAIN op.tgt |-> f.val[CHOOSE k \in DOMAIN op.dom : TRUE]])
AdapterLin(op) ==
    MkLin("FieldAdapter", op.dom, op.tgt, [p \in (DOMAIN op.tgt) \X (DOMAIN op.dom) |-> 1], 0)

\* value, Jacobian and metric of the energy leaf at x
EnergyValue(f) ==
    MkField(ScalarDT, [t \in {NoKey} |->
        VSum(DOMAIN f.dom, [k \in DOMAIN f.dom |-> VMul(f.val[k], f.val[k])])])
EnergyApply(op, x) ==
    IF ~IsLin(x) THEN FieldObj(EnergyValue(x.val))
    ELSE new(x, EnergyValue(x.val), LinScale(VdotOperator(x.val), 2),
             IF x.want_metric THEN ScalingOperator(op.dom, 1) ELSE NoneOp)

RECURSIVE Call(_, _), apply(_, _), ChainApply(_, _, _)

\* Operator.__call__ on a Field or a Linearization
CallMutNoPrepend(op, x) ==
    IF x.jac # NoneOp THEN apply(op, trivial_jac(x)) ELSE apply(op, x)
Call(op, x) ==
    IF x.jac # NoneOp THEN prepend_jac(apply(op, trivial_jac(x)), x.jac)
    ELSE apply(op, x)

\* the loop of _OpChain.apply: ops[i], ..., ops[1] applied in this order
ChainApply(ops, i, x) ==
    IF i = 0 \/ x.err # "" THEN x
    ELSE ChainApply(ops, i - 1, Call(ops[i], x))

\* _OpProd.apply on a Field / MultiField (line 429)
OpProd_applyField(op, x) ==
    LET r1 == Call(op.ops[1], FieldObj(extract(x.val, op.ops[1].dom)))
        r2 == Call(op.ops[2], FieldObj(extract(x.val, op.ops[2].dom)))
    IN IF r1.err # "" THEN r1 ELSE IF r2.err # "" THEN r2
       ELSE FieldObj(FieldMul(r1.val, r2.val))
\* the Jacobian _OpProd.apply builds from the two linearized branches (line 432)
ProductJacMutSwapped(lin1, lin2) ==
    LinSum(LinChain(makeOp(lin1.val), lin1.jac), LinChain(makeOp(lin2.val), lin2.jac), FALSE)
ProductJac(lin1, lin2) ==
    LinSum(LinChain(makeOp(lin1.val), lin2.jac), LinChain(makeOp(lin2.val), lin1.jac), FALSE)
\* _OpProd.apply on a Linearization (lines 430-433)
OpProd_applyLin(op, x) ==
    LET wm == x.want_metric
        lin1 == Call(op.ops[1], make_var(extract(x.val, op.ops[1].dom), wm))
        lin2 == Call(op.ops[2], make_var(extract(x.val, op.ops[2].dom), wm))
    IN IF lin1.err # "" THEN lin1 ELSE IF lin2.err # "" THEN lin2
       ELSE new(lin1, FieldMul(lin1.val, lin2.val), ProductJac(lin1, lin2), NoneOp)
\* _OpProd.apply after _check_input
OpProd_apply(op, x) ==
    IF IsLin(x) THEN OpProd_applyLin(op, x) ELSE OpProd_applyField(op, x)

\* _OpSum.apply on a Field / MultiField (lines 466-469)
OpSum_applyField(op, x) ==
    LET r1 == Call(op.ops[1], FieldObj(extract(x.val, op.ops[1].dom)))
        r2 == Call(op.ops[2], FieldObj(extract(x.val, op.ops[2].dom)))
    IN IF r1.err # "" THEN r1 ELSE IF r2.err # "" THEN r2
       ELSE FieldObj(unite(r1.val, r2.val))
\* the metric _OpSum.apply attaches to its result (lines 477-478); None if there is none
SumMetricMutEither(lin1, lin2) ==
    IF lin1.metric # NoneOp /\ lin2.metric # NoneOp
    THEN LinSum(lin1.metric, lin2.metric, FALSE)
    ELSE IF lin1.metric # NoneOp THEN lin1.metric ELSE lin2.metric
SumMetric(lin1, lin2) ==
    IF lin1.metric # NoneOp /\ lin2.metric # NoneOp
    THEN LinSum(lin1.metric, lin2.metric, FALSE)
    ELSE NoneOp
\* _OpSum.apply on a Linearization (lines 470-479)
OpSum_applyLin(op, x) ==
    LET wm == x.want_metric
        lin1 == Call(op.ops[1], make_var(extract(x.val, op.ops[1].dom), wm))
        lin2 == Call(op.ops[2], make_var(extract(x.val, op.ops[2].dom), wm))
        res0 == new(lin1, unite(lin1.val, lin2.val), LinSum(lin1.jac, lin2.jac, FALSE), NoneOp)
        met == SumMetric(lin1, lin2)
    IN IF lin1.err # "" THEN lin1 ELSE IF lin2.err # "" THEN lin2
       ELSE IF res0.err = "" /\ met # NoneOp THEN add_metric(res0, met)
       ELSE res0
\* _OpSum.apply after _check_input
OpSum_apply(op, x) ==
    IF IsLin(x) THEN OpSum_applyLin(op, x) ELSE OpSum_applyField(op, x)

\* _ConstantOperator.apply after _check_input
ConstantOperator_applyMutKeepJac(op, x) ==
    IF IsLin(x) THEN new(x, op.out, AdapterLin(op), NoneOp)
    ELSE FieldObj(op.out)
ConstantOperator_apply(op, x) ==
    IF IsLin(x) THEN new(x, op.out, NullOperator(op.dom, op.tgt), NoneOp)
    ELSE FieldObj(op.out)

\* op.apply(x), x a Field or a Linearization with the identity as Jacobian
apply(op, x) ==
    LET e == check_input(op, x)
    IN IF e # "" THEN ErrObj(e)
       ELSE IF op.kind = "_OpChain" THEN ChainApply(op.ops, Len(op.ops), x)
       ELSE IF op.kind = "_OpProd" THEN OpProd_apply(op, x)
       ELSE IF op.kind = "_OpSum" THEN OpSum_apply(op, x)
       ELSE IF op.kind = "_ConstantOperator" THEN ConstantOperator_apply(op, x)
       ELSE IF op.kind = "_FunctionApplier"
            THEN (IF IsLin(x) THEN Lin_ptw(x, op.fn) ELSE FieldObj(FieldPtw(op.fn, x.val)))
       ELSE IF op.kind = "FieldAdapter"
            THEN (IF IsLin(x) THEN new(x, AdapterTimes(op, x.val), AdapterLin(op), NoneOp)
                  ELSE FieldObj(AdapterTimes(op, x.val)))
       ELSE IF op.kind = "BlockDiagonalOperator"
            THEN (IF IsLin(x) THEN new(x, x.val, ScalingOperator(op.dom, 1), NoneOp) ELSE x)
       ELSE EnergyApply(op, x)

\* what an operator may be called on: an Operator, which is a Field or
\* Linearization obj or else an operator graph op, or something else
Arg(isOperator, o, op) == [isOperator |-> isOperator, obj |-> o, op |-> op]
\* Operator.__call__ on any argument: an object or exception, or a chain
Operator_call(self, x) ==
    IF ~x.isOperator THEN [obj |-> ErrObj("TypeError"), op |-> ErrOp("")]
    ELSE IF x.obj.jac # NoneOp \/ x.obj.val # NoneVal
    THEN [obj |-> Call(self, x.obj), op |-> ErrOp("")]
    ELSE [obj |-> NoneObj, op |-> matmul(self, x.op)]

-----------------------------------------------------------------------------
(* Constant folding *)

\* a folded constant: none says that it is None, else c is the MultiField
MkSimp(e, none, c, op) == [err |-> e, none |-> none, c |-> c, op |-> op]

\* _ConstCollector: _const (None or a MultiField) and _nc
NewCollector == [err |-> "", none |-> TRUE, const |-> EmptyField, nc |-> {}]
\* MultiField.from_dict({key: f[key] for key in f if key not in nc})
WithoutKeys(f, nc) ==
    LET K == DOMAIN f.dom \ nc
    IN MkField([k \in K |-> f.dom[k]], [k \in K |-> f.val[k]])
\* set(fulldom) for a MultiDomain: the class defines __getitem__ and __len__ but
\* no __iter__, so iteration asks for fulldom[0], which looks 0 up in _idx
set_of_MultiDomain(d) == [err |-> "KeyError", keys |-> {}]

\* _ConstCollector.add
ConstCollector_add(cc, none, const, fulldom) ==
    IF cc.err # "" THEN cc
    ELSE IF none THEN [cc EXCEPT !.nc = cc.nc \cup DOMAIN fulldom]
    ELSE LET nc == cc.nc \cup (DOMAIN fulldom \ DOMAIN const.dom)
         IN IF cc.none
            THEN [cc EXCEPT !.nc = nc, !.none = FALSE, !.const = WithoutKeys(const, nc)]
            ELSE [cc EXCEPT !.nc = nc, !.const = WithoutKeys(unite(cc.const, const), nc)]
\* _ConstCollector.mult
ConstCollector_mult(cc, none, const, fulldom) ==
    LET s == set_of_MultiDomain(fulldom)
    IN IF cc.err # "" THEN cc
       ELSE IF s.err # "" THEN [cc EXCEPT !.err = s.err]
       ELSE IF none THEN [cc EXCEPT !.nc = cc.nc \cup s.keys]
       ELSE LET nc == cc.nc \cup (s.keys \ DOMAIN const.dom)
            IN IF cc.none
               THEN [cc EXCEPT !.nc = nc, !.none = FALSE, !.const = WithoutKeys(const, nc)]
               ELSE [cc EXCEPT !.nc = nc,
                               !.const = WithoutKeys(FieldMul(extract_part(cc.const, const.dom),
                                                              extract_part(const, cc.const.dom)), nc)]

RECURSIVE simplify_for_constant_input(_, _, _), ChainSimplify(_, _, _, _)

\* the loop of _OpChain._simplify_for_constant_input_nontrivial over ops[i], ..., ops[1];
\* r holds the current c_inp and newop
ChainSimplify(ops, i, r, first) ==
    IF i = 0 \/ r.err # "" THEN r
    ELSE LET t == simplify_for_constant_input(ops[i], r.none, r.c)
             newop == IF first THEN t.op ELSE matmul(ops[i], r.op)
         IN ChainSimplify(ops, i - 1,
                          MkSimp(IF t.err # "" THEN t.err ELSE newop.err, t.none, t.c, newop),
                          FALSE)

\* _OpChain._simplify_for_constant_input_nontrivial
OpChain_simplify(op, c) ==
    IF ~IsMulti(op.dom) THEN MkSimp("", TRUE, EmptyField, op)
    ELSE ChainSimplify(op.ops, Len(op.ops), MkSimp("", FALSE, c, op), TRUE)

\* _OpProd._simplify_for_constant_input_nontrivial
OpProd_simplify(op, c) ==
    LET r1 == simplify_for_constant_input(op.ops[1], FALSE, extract_part(c, op.ops[1].dom))
        r2 == simplify_for_constant_input(op.ops[2], FALSE, extract_part(c, op.ops[2].dom))
        newop == OpProd_init(r1.op, r2.op)
        cc == ConstCollector_mult(
                  ConstCollector_mult(NewCollector, r1.none, r1.c, r1.op.tgt),
                  r2.none, r2.c, r2.op.tgt)
    IN IF r1.err # "" THEN r1 ELSE IF r2.err # "" THEN r2
       ELSE IF ~IsMulti(op.tgt) THEN MkSimp(newop.err, TRUE, EmptyField, newop)
       ELSE IF cc.err # "" THEN MkSimp(cc.err, TRUE, EmptyField, op)
       ELSE MkSimp(newop.err, cc.none, cc.const, newop)

\* _OpSum._simplify_for_constant_input_nontrivial
OpSum_simplify(op, c) ==
    LET r1 == simplify_for_constant_input(op.ops[1], FALSE, extract_part(c, op.ops[1].dom))
        r2 == simplify_for_constant_input(op.ops[2], FALSE, extract_part(c, op.ops[2].dom))
        newop == OpSum_init(r1.op, r2.op)
        cc == ConstCollector_add(
                  ConstCollector_add(NewCollector, r1.none, r1.c, r1.op.tgt),
                  r2.none, r2.c, r2.op.tgt)
    IN IF r1.err # "" THEN r1 ELSE IF r2.err # "" THEN r2
       ELSE IF ~IsMulti(op.tgt) THEN MkSimp(newop.err, TRUE, EmptyField, newop)
       ELSE MkSimp(newop.err, cc.none, cc.const, newop)

\* Operator.simplify_for_constant_input
simplify_for_constant_input(op, none, c) ==
    IF none THEN MkSimp("", TRUE, EmptyField, op)
    ELSE IF c.dom = op.dom
    THEN LET co == ConstantOperator(op.dom, Call(op, FieldObj(c)).val)
         IN MkSimp("", FALSE, Call(co, FieldObj(c)).val, co)
    ELSE IF op.kind = "_OpChain" THEN OpChain_simplify(op, c)
    ELSE IF op.kind = "_OpProd" THEN OpProd_simplify(op, c)
    ELSE IF op.kind = "_OpSum" THEN OpSum_simplify(op, c)
    ELSE MkSimp("", TRUE, EmptyField, op)

-----------------------------------------------------------------------------
(* The program: operators are built bottom-up on a stack of at most three  *)
(* objects, and the finished graph is evaluated on Fields, on              *)
(* Linearizations, or folded for a constant input.                         *)

VARIABLES
    \* graphs under construction and the last evaluation of the finished graph
    stack, err, last, res,
    \* the Linearization at hand, the operation that produced it, its exception
    lx, lact, lerr, lsteps,
    \* MultiDomain._domainCache, the MultiDomain objects created so far, and
    \* per thread the position inside MultiDomain.make with its locals
    domainCache, heap, stored, returned, pc, tmp, obj,
    \* an operator graph shared by the threads evaluating it, per thread the
    \* position in _OpChain.apply with its local x, and the call that returned last
    gop, ex, finished

graphVars == <<stack, err, last, res>>
linVars == <<lx, lact, lerr, lsteps>>
makeVars == <<domainCache, heap, stored, returned, pc, tmp, obj>>
evalVars == <<gop, ex, finished>>

VARIABLES
    \* a linear operator or a view of one, the request that produced it, and
    \* the outcome of the last apply(x, mode) on it
    view, vact, vout,
    \* the last call of MultiDomain.union: its inputs, the order in which the
    \* set of inputs was walked, and its outcome
    ulast,
    \* per thread the leaves its running call has applied so far, each with
    \* what it was handed and what it returned, and the same for the call that
    \* returned last
    trace, ftrace,
    \* the last call of a method of an EndomorphicOperator
    ecall,
    \* the registry of elementwise functions, the lifted node and its last call
    reg,
    \* the locals of ConjugateGradient.__call__ and its position
    cg,
    \* the tree of the NUTS trajectory that is being grown
    nuts,
    \* the loop state of the jax solver _cg
    jcg
viewVars == <<view, vact, vout>>
unionVars == <<ulast>>
traceVars == <<trace, ftrace>>
lateVars == <<ecall, reg, cg, nuts, jcg>>
auxVars == <<viewVars, unionVars, traceVars, lateVars>>
\* everything but one of the last five
oldVars == <<graphVars, linVars, makeVars, evalVars, viewVars, unionVars, traceVars>>
vars == <<graphVars, linVars, makeVars, evalVars, auxVars>>

DomD == MkDT("D")
DomA == [k \in {"a"} |-> "D"]
DomB == [k \in {"b"} |-> "D"]
DomAB == [k \in {"a", "b"} |-> "D"]

\* the leaf operators graphs are built from
Leaves ==
    { FieldAdapter("a", "D", TRUE), FieldAdapter("b", "D", TRUE),
      FieldAdapter("a", "D", FALSE), FieldAdapter("a", "E", TRUE),
      FunctionApplier(DomD, "exp"),
      FunctionApplier(DomA, "exp"), FunctionApplier(DomB, "absolute"),
      FunctionApplier(DomAB, "absolute"),
      EnergyLeaf(DomA) }

\* the numbers input fields are filled with
Vals == {0, 1, 2}

NoObj == ErrObj("")
NoSimp == MkSimp("", TRUE, EmptyField, ErrOp(""))
NoRes == [kind |-> "", x |-> NoObj, out |-> NoObj, simp |-> NoSimp]
NoLast == [act |-> "", a |-> ErrOp(""), b |-> ErrOp("")]

RECURSIVE StackLeaves(_)
StackLeaves(st) == IF st = <<>> THEN 0 ELSE NumLeaves(Head(st)) + StackLeaves(Tail(st))

Top == stack[Len(stack)]
Below == stack[Len(stack) - 1]
\* the stack with its two topmost objects replaced by r
Replace2(r) == Append(SubSeq(stack, 1, Len(stack) - 2), r)

Threads == 1..NumThreads
NoLact == [act |-> "", a |-> NoObj, b |-> NoObj, op |-> ErrOp("")]
NoEx == [busy |-> FALSE, inp |-> NoObj, i |-> 0, x |-> NoObj]

\* nothing built, no Linearization made, nothing interned, nothing evaluated
IdleGraph == stack = <<>> /\ err = "" /\ last = NoLast /\ res = NoRes
IdleLin == lx = NoObj /\ lact = NoLact /\ lerr = "" /\ lsteps = 0
IdleMake ==
    /\ domainCache = [c \in MultiDomains |-> 0]
    /\ heap = <<>>
    /\ stored = <<>>
    /\ returned = {}
    /\ pc = [t \in Threads |-> "idle"]
    /\ tmp = [t \in Threads |-> EmptyMD]
    /\ obj = [t \in Threads |-> 0]
NoFin == [inp |-> NoObj, out |-> NoObj]
IdleEval == gop = ErrOp("") /\ ex = [t \in Threads |-> NoEx] /\ finished = NoFin

\* no linear operator yet
NoView == [cls |-> "", op |-> <<>>, trafo |-> 0, domain |-> EmptyMD, capability |-> 0,
           ops |-> <<>>, err |-> ""]
NoVact == [act |-> "", t |-> 0, before |-> NoView, x |-> EmptyField, mode |-> 0]
NoVout == [err |-> "", val |-> EmptyField]
IdleView == view = NoView /\ vact = NoVact /\ vout = NoVout
NoUlast == [act |-> "", ids |-> <<>>, order |-> <<>>, err |-> "", obj |-> 0]
IdleUnion == ulast = NoUlast
IdleTrace == trace = [t \in Threads |-> <<>>] /\ ftrace = <<>>

NoEcall == <<>>
\* ptw_dict as the module defines it; "myptw" is the name a user adds later
RegNames == {"absolute", "myptw"}
Unregistered == "unregistered"
ptw_dict == [n \in RegNames |-> IF n = "absolute" THEN "absolute" ELSE Unregistered]
NoNode == [funcname |-> ""]
NoPtwCall == [x |-> 0, out |-> [err |-> "", val |-> 0], done |-> FALSE]
NoReg == [table |-> ptw_dict, node |-> NoNode, built |-> ptw_dict, call |-> NoPtwCall]
\* IterationController: CONVERGED, CONTINUE, ERROR = range(3)
CONVERGED == 0
CONTINUE == 1
ERROR == 2
\* a local of ConjugateGradient.__call__ that has not been assigned yet
Unset == Unrep
NoCg == [pc |-> "idle", answer |-> Unset, status |-> Unset, previous_gamma |-> Unset,
         curv |-> Unset, gamma |-> Unset, ii |-> 0, iters |-> 0]
NoNuts == [pc |-> "idle", depth |-> 0, points |-> 0, turning |-> FALSE, stop |-> FALSE,
           go_right |-> FALSE, n |-> 0, sub_turning |-> FALSE, steps |-> 0]
NoJcg == [pc |-> "idle", maxiter |-> 0, miniter |-> 0, within_newton |-> FALSE,
          resnorm |-> FALSE, absdelta |-> FALSE, i |-> 0, info |-> 0, success |-> FALSE,
          why |-> ""]
IdleLate == ecall = NoEcall /\ reg = NoReg /\ cg = NoCg /\ nuts = NoNuts /\ jcg = NoJcg

Init ==
    /\ IdleGraph /\ IdleLin /\ IdleMake /\ IdleEval /\ IdleView /\ IdleUnion /\ IdleTrace
    /\ IdleLate

\* a leaf operator is constructed
PushLeaf ==
    \E l \in Leaves :
        /\ Len(stack) < 3
        /\ StackLeaves(stack) < MaxLeaves
        /\ stack' = Append(stack, l)
        /\ err' = ""
        /\ last' = NoLast
        /\ res' = NoRes
        /\ UNCHANGED <<linVars, makeVars, evalVars, auxVars>>

\* a binary construction from the two topmost objects; a raising constructor
\* leaves no object behind
Build(act, r) ==
    /\ last' = [act |-> act, a |-> Below, b |-> Top]
    /\ err' = r.err
    /\ stack' = IF r.err = "" THEN Replace2(r) ELSE stack
    /\ res' = NoRes
    /\ UNCHANGED <<linVars, makeVars, evalVars, auxVars>>

\* Below @ Top through Operator.__matmul__
Matmul ==
    /\ Len(stack) >= 2
    /\ ~(IsLinearOperator(Below) /\ IsLinearOperator(Top))
    /\ Build("matmul", matmul(Below, Top))

\* Below + Top through Operator.__add__
Add ==
    /\ Len(stack) >= 2
    /\ ~(IsLinearOperator(Below) /\ IsLinearOperator(Top))
    /\ Build("add", OpSum_init(Below, Top))

\* Below * Top through Operator.__mul__
Mul ==
    /\ Len(stack) >= 2
    /\ Build("mul", OpProd_init(Below, Top))

\* the finished graph is called on a Field / MultiField of its domain
ApplyField ==
    /\ Len(stack) = 1
    /\ res = NoRes
    /\ \E f \in FieldsOn(Top.dom, Vals) :
          LET out == Call(Top, FieldObj(f))
          IN /\ ObjRep(out)
             /\ res' = [kind |-> "field", x |-> FieldObj(f), out |-> out, simp |-> NoSimp]
    /\ UNCHANGED <<stack, err, last, linVars, makeVars, evalVars, auxVars>>

\* the finished graph is called on Linearization.make_var(f, wm)
ApplyLin ==
    /\ Len(stack) = 1
    /\ res = NoRes
    /\ \E f \in FieldsOn(Top.dom, Vals), wm \in BOOLEAN :
          LET x == make_var(f, wm)
              out == Call(Top, x)
          IN /\ ObjRep(out)
             /\ res' = [kind |-> "lin", x |-> x, out |-> out, simp |-> NoSimp]
    /\ UNCHANGED <<stack, err, last, linVars, makeVars, evalVars, auxVars>>

\* the constant inputs of a graph: the MultiFields on a non-empty part of its domain
ConstInputs(op) ==
    IF IsMulti(op.dom)
    THEN UNION { FieldsOn([k \in K |-> op.dom[k]], Vals) : K \in (SUBSET DOMAIN op.dom) \ {{}} }
    ELSE FieldsOn(op.dom, Vals)

RECURSIVE OpRep(_)
OpRep(op) ==
    /\ FieldRep(op.out)
    /\ \A i \in 1..Len(op.ops) : OpRep(op.ops[i])

\* the finished graph is folded for the constant input c
Simplify ==
    /\ Len(stack) = 1
    /\ res = NoRes
    /\ \E c \in ConstInputs(Top) :
          LET r == simplify_for_constant_input(Top, FALSE, c)
          IN /\ OpRep(r.op) /\ FieldRep(r.c)
             /\ res' = [kind |-> "simplify", x |-> FieldObj(c), out |-> NoObj, simp |-> r]
    /\ UNCHANGED <<stack, err, last, linVars, makeVars, evalVars, auxVars>>

\* what apply is handed by a caller that does not respect the domain: a field
\* of another domain, an object that is no field, a Linearization whose
\* Jacobian is not the identity, or a Linearization of another domain
OtherDomains(op) == {DomD, DomA, DomAB} \ {op.dom}
BadInputs(op) ==
    UNION {{FieldObj(f), make_var(f, FALSE)} : f \in UNION {FieldsOn(d, {1}) : d \in OtherDomains(op)}}
    \cup {PlainOperator}
    \cup UNION {{make_const(f, FALSE), MkObj(f, ScalingOperator(f.dom, 2), NoneOp, FALSE, "")} :
                    f \in FieldsOn(op.dom, {1})}
\* the finished graph, and the _ConstantOperator it folds to
Applied(op) ==
    {op} \cup {simplify_for_constant_input(op, FALSE, c).op : c \in FieldsOn(op.dom, {0})}

\* apply of the finished graph, or of its folded form, is called directly on
\* such an input; res.simp.op keeps the operator that was applied
ApplyBad ==
    /\ Len(stack) = 1
    /\ res = NoRes
    /\ \E op \in Applied(Top) : \E x \in BadInputs(op) :
          /\ OpRep(op)
          /\ res' = [kind |-> "apply", x |-> x, out |-> apply(op, x),
                     simp |-> MkSimp("", TRUE, EmptyField, op)]
    /\ UNCHANGED <<stack, err, last, linVars, makeVars, evalVars, auxVars>>

\* Below(Top): an operator called on an operator
CallOp ==
    /\ Len(stack) >= 2
    /\ ~(IsLinearOperator(Below) /\ IsLinearOperator(Top))
    /\ Build("call", Operator_call(Below, Arg(TRUE, PlainOperator, Top)).op)

\* Jacobians of the Linearizations a graph is called on: twice the identity,
\* and the zero map from another domain
CallJacs(d) == {ScalingOperator(d, 2), NullOperator(DomA, d), NullOperator(DomAB, d)}
\* the finished graph is called on a Linearization whose Jacobian is not the
\* identity, or on something that is no Operator
CallArg ==
    /\ Len(stack) = 1
    /\ res = NoRes
    /\ \/ \E f \in FieldsOn(Top.dom, Vals), jac \in CallJacs(Top.dom) :
             LET x == Linearization(f, jac, NoneOp, FALSE)
                 out == Operator_call(Top, Arg(TRUE, x, ErrOp(""))).obj
             IN /\ ObjRep(out)
                /\ res' = [kind |-> "call", x |-> x, out |-> out, simp |-> NoSimp]
       \/ res' = [kind |-> "call_other", x |-> NoObj,
                  out |-> Operator_call(Top, Arg(FALSE, NoObj, ErrOp(""))).obj, simp |-> NoSimp]
    /\ UNCHANGED <<stack, err, last, linVars, makeVars, evalVars, auxVars>>

\* the finished graph is folded with no constant input: c_inp is None
SimplifyNone ==
    /\ Len(stack) = 1
    /\ res = NoRes
    /\ res' = [kind |-> "simplifyNone", x |-> NoObj, out |-> NoObj,
               simp |-> simplify_for_constant_input(Top, TRUE, EmptyField)]
    /\ UNCHANGED <<stack, err, last, linVars, makeVars, evalVars, auxVars>>

Next ==
    \/ PushLeaf \/ Matmul \/ Add \/ Mul \/ CallOp
    \/ ApplyField \/ ApplyLin \/ ApplyBad \/ CallArg \/ Simplify \/ SimplifyNone

Spec == Init /\ [][Next]_vars

-----------------------------------------------------------------------------
(* Claims about building and evaluating operator graphs (under Spec) *)

RECURSIVE AllOps(_)
AllOps(op) == {op} \cup UNION {AllOps(op.ops[i]) : i \in 1..Len(op.ops)}
\* every operator object that exists: on the stack, inside one of them, or
\* returned by the last folding
StateOps ==
    UNION {AllOps(stack[i]) : i \in 1..Len(stack)}
    \cup (IF res.kind = "simplify" /\ res.simp.err = "" THEN AllOps(res.simp.op) ELSE {})

\* two domains that have no union: different DomainTuples, a DomainTuple and a
\* MultiDomain, or MultiDomains that map a shared key to different DomainTuples
Disagree(d1, d2) ==
    IF IsDT(d1) \/ IsDT(d2) THEN d1 # d2
    ELSE \E k \in Keys : k \in DOMAIN d1 /\ k \in DOMAIN d2 /\ d1[k] # d2[k]
MismatchedOperands(kind, a, b) ==
    \/ kind = "_OpChain" /\ a.dom # b.tgt
    \/ kind = "_OpProd" /\ (a.tgt # b.tgt \/ Disagree(a.dom, b.dom))
    \/ kind = "_OpSum" /\ (Disagree(a.dom, b.dom) \/ Disagree(a.tgt, b.tgt))
KindOf(act) ==
    IF act \in {"matmul", "call"} THEN "_OpChain" ELSE IF act = "mul" THEN "_OpProd" ELSE "_OpSum"

\* C2: a combinator whose operands mismatch is refused by its constructor: the
\* construction raises, the operands stay as they were and no result exists;
\* hence the operands of every combinator object that exists match.
C2_MismatchRaisesAtConstruction ==
    /\ last.act # "" /\ MismatchedOperands(KindOf(last.act), last.a, last.b)
          => err # "" /\ Len(stack) >= 2 /\ Below = last.a /\ Top = last.b
    /\ \A op \in StateOps :
          /\ op.err = ""
          /\ op.kind = "_OpChain" =>
                \A i \in 1..(Len(op.ops) - 1) :
                    ~MismatchedOperands("_OpChain", op.ops[i], op.ops[i + 1])
          /\ op.kind \in {"_OpProd", "_OpSum"} =>
                ~MismatchedOperands(op.kind, op.ops[1], op.ops[2])
C2_Witness ==
    /\ last.act = "matmul" /\ err = "ValueError"
    /\ last.a.kind = "_OpChain" /\ last.a.dom # last.b.tgt

\* the union of two agreeing domains
UnionOf(d1, d2) ==
    [k \in {NoKey} \cup Keys |-> IF k \in DOMAIN d1 THEN d1[k] ELSE IF k \in DOMAIN d2 THEN d2[k] ELSE ""]
HasUnion(d, d1, d2) ==
    /\ DOMAIN d = DOMAIN d1 \cup DOMAIN d2
    /\ \A k \in DOMAIN d : d[k] = UnionOf(d1, d2)[k]

\* C3: a chain has the domain of its last leaf and the target of its first leaf;
\* a sum has the unions of its operands' domains and targets; a product has the
\* union of the operands' domains and their common target.
C3_DomainSoundness ==
    \A op \in StateOps :
        /\ op.kind = "_OpChain" =>
              op.dom = op.ops[Len(op.ops)].dom /\ op.tgt = op.ops[1].tgt
        /\ op.kind = "_OpSum" =>
              /\ HasUnion(op.dom, op.ops[1].dom, op.ops[2].dom)
              /\ HasUnion(op.tgt, op.ops[1].tgt, op.ops[2].tgt)
        /\ op.kind = "_OpProd" =>
              /\ HasUnion(op.dom, op.ops[1].dom, op.ops[2].dom)
              /\ op.tgt = op.ops[1].tgt /\ op.tgt = op.ops[2].tgt
C3_Witness ==
    /\ Len(stack) = 1 /\ Top.kind = "_OpSum"
    /\ Top.ops[1].kind = "_OpChain" /\ Top.ops[1].dom # Top.ops[1].ops[1].dom
    /\ Top.dom = DomAB /\ Top.ops[1].dom # DomAB /\ Top.ops[2].dom # DomAB

\* the leaves an operand contributes to a chain
Flat(op) == IF op.kind = "_OpChain" THEN op.ops ELSE <<op>>
SameOnAllInputs(o1, o2) ==
    \A f \in FieldsOn(o1.dom, Vals) : Call(o1, FieldObj(f)) = Call(o2, FieldObj(f))

\* C4: a chain holds one flat sequence of at least two leaves, none a chain; a
\* successful @ holds the leaves of its left operand followed by those of its
\* right operand; composing a single operator gives that operator; and
\* (a@b)@c and a@(b@c) hold the same leaves and evaluate alike.
C4_ChainFlattening ==
    /\ \A op \in StateOps :
          /\ op.kind = "_OpChain" =>
                Len(op.ops) >= 2 /\ \A i \in 1..Len(op.ops) : op.ops[i].kind # "_OpChain"
          /\ OpChain_make(<<op>>) = op
    /\ last.act = "matmul" /\ err = "" => Top.ops = Flat(last.a) \o Flat(last.b)
    /\ Len(stack) = 3 =>
          LET a == stack[1]
              b == stack[2]
              c == stack[3]
              l == matmul(matmul(a, b), c)
              r == matmul(a, matmul(b, c))
          IN matmul(a, b).err = "" /\ matmul(b, c).err = "" =>
                /\ l.err = "" /\ r.err = ""
                /\ l.ops = Flat(a) \o Flat(b) \o Flat(c)
                /\ r.ops = l.ops
                /\ SameOnAllInputs(l, r)
C4_Witness ==
    /\ last.act = "matmul" /\ err = "" /\ Len(stack) = 1
    /\ last.b.kind = "_OpChain" /\ last.a.kind # "_OpChain"
    /\ Len(Top.ops) = 3

\* the graph exp(a) * b of the example
ExpATimesB ==
    OpProd_init(matmul(FunctionApplier(DomD, "exp"), FieldAdapter("a", "D", TRUE)),
                FieldAdapter("b", "D", TRUE))
Tangent(da, db) == MkField(DomAB, [k \in {"a", "b"} |-> IF k = "a" THEN da ELSE db])

\* C9: the linearized evaluation of a product f*g at x has the value f(x)*g(x)
\* and the Jacobian f(x)*dg + g(x)*df; for exp(a)*b at a=0, b=2 the value is 2
\* and the Jacobian maps (1,0) to 2 and (0,1) to 1.
C9_ProductRule ==
    res.kind = "lin" /\ Top.kind = "_OpProd" =>
        LET x == res.x.val
            wm == res.x.want_metric
            f == Call(Top.ops[1], make_var(extract(x, Top.ops[1].dom), wm))
            g == Call(Top.ops[2], make_var(extract(x, Top.ops[2].dom), wm))
        IN /\ res.out.err = ""
           /\ res.out.val.dom = Top.tgt
           /\ \A t \in DOMAIN Top.tgt : res.out.val.val[t] = f.val.val[t] * g.val.val[t]
           /\ res.out.jac.dom = Top.dom /\ res.out.jac.tgt = Top.tgt
           /\ \A t \in DOMAIN Top.tgt, d \in DOMAIN Top.dom :
                 res.out.jac.mat[<<t, d>>] =
                     f.val.val[t] * Entry(g.jac, <<t, d>>) + g.val.val[t] * Entry(f.jac, <<t, d>>)
           /\ Top = ExpATimesB /\ x = Tangent(0, 2) =>
                 /\ res.out.val.val[NoKey] = 2
                 /\ LinTimes(res.out.jac, Tangent(1, 0)).val[NoKey] = 2
                 /\ LinTimes(res.out.jac, Tangent(0, 1)).val[NoKey] = 1
C9_Witness ==
    /\ res.kind = "lin" /\ Top = ExpATimesB /\ res.x.val = Tangent(0, 2)
    /\ res.out.val.val[NoKey] = 2

\* the full inputs that carry the constant field c on the keys of c
Completions(op, c) ==
    {f \in FieldsOn(op.dom, Vals) : \A k \in DOMAIN c.dom : f.val[k] = c.val[k]}
\* op and its folded form agree on f: in value-only evaluation, and in
\* Linearized evaluation in the value and in the Jacobian's action on the
\* non-constant keys
AgreeAt(op, folded, c, f) ==
    LET o1 == Call(op, FieldObj(f))
        o2 == Call(folded, FieldObj(f))
        l1 == Call(op, make_var(f, FALSE))
        l2 == Call(folded, make_var(f, FALSE))
    IN /\ ObjRep(o1) => o2 = o1
       /\ ObjRep(l1) =>
             /\ l2.err = "" /\ l2.val = l1.val
             /\ \A t \in DOMAIN op.tgt, d \in (DOMAIN op.dom) \ (DOMAIN c.dom) :
                   Entry(l2.jac, <<t, d>>) = Entry(l1.jac, <<t, d>>)
FoldedAgrees(op, c, r) ==
    r.err = "" /\ \A f \in Completions(op, c) : AgreeAt(op, r.op, c, f)

\* C1: for every graph with a MultiDomain domain and every constant input c on
\* part (or all) of its keys, simplify_for_constant_input(c) returns an operator
\* that agrees with the graph on every full input carrying c, in value-only and
\* in Linearized evaluation.
C1_FoldingTransparent ==
    res.kind = "simplify" /\ IsMulti(Top.dom) => FoldedAgrees(Top, res.x.val, res.simp)
\* what does hold: whenever folding returns, the returned operator agrees
C1_TransparentWhenReturned ==
    res.kind = "simplify" /\ IsMulti(Top.dom) /\ res.simp.err = ""
        => FoldedAgrees(Top, res.x.val, res.simp)

-----------------------------------------------------------------------------
(* Linearization objects: made, combined and passed through operator graphs *)

\* the fields Linearizations are made from: exp is evaluated at 0, absolute away from 0
LinFields ==
    FieldsOn(DomD, {0, 2}) \cup FieldsOn(DomA, {0}) \cup FieldsOn(DomB, {2})
    \cup {MkField(DomAB, [k \in {"a", "b"} |-> IF k = "a" THEN 0 ELSE 2])}
\* Jacobians handed to the constructor
LinJacs ==
    {ScalingOperator(d, 1) : d \in {DomD, DomA, DomAB}}
    \cup {NullOperator(DomA, DomD), NullOperator(DomAB, DomB)}
    \cup {AdapterLin(FieldAdapter("a", "D", TRUE))}
\* graphs a Linearization is passed through: a chain, a product, sums of
\* energies of which a branch may lack a metric, and a sum with a MultiDomain target
LinGraphs ==
    { matmul(FunctionApplier(DomD, "exp"), FieldAdapter("a", "D", TRUE)),
      matmul(FunctionApplier(DomAB, "absolute"), FunctionApplier(DomAB, "absolute")),
      OpProd_init(matmul(FunctionApplier(DomD, "exp"), FieldAdapter("a", "D", TRUE)),
                  FieldAdapter("b", "D", TRUE)),
      OpSum_init(EnergyLeaf(DomA), EnergyLeaf(DomB)),
      OpSum_init(EnergyLeaf(DomA), matmul(FunctionApplier(ScalarDT, "absolute"), EnergyLeaf(DomB))),
      OpSum_init(FunctionApplier(DomA, "exp"), FunctionApplier(DomAB, "absolute")) }
\* the second operand of + and *: a fresh Linearization or a graph applied to one
LinOperands ==
    LET vars1 == {make_var(f, TRUE) : f \in LinFields}
    IN vars1 \cup {make_const(f, FALSE) : f \in LinFields}
       \cup UNION {{Call(g, x) : x \in {b \in vars1 : b.val.dom = g.dom}} : g \in LinGraphs}

\* the operation gave r: a raised exception leaves the Linearization at hand
LinStep(act, a, b, op, r) ==
    /\ ObjRep(r)
    /\ lact' = [act |-> act, a |-> a, b |-> b, op |-> op]
    /\ lerr' = r.err
    /\ lx' = IF r.err = "" THEN r ELSE lx
    /\ UNCHANGED <<graphVars, makeVars, evalVars, auxVars>>
\* the first Linearization is made
LinMake(act, a, r) ==
    /\ lx = NoObj
    /\ LinStep(act, a, NoObj, ErrOp(""), r)
    /\ UNCHANGED lsteps
\* an operation on the Linearization at hand
LinOp(act, b, op, r) ==
    /\ lx # NoObj
    /\ lsteps < MaxLinSteps
    /\ LinStep(act, lx, b, op, r)
    /\ lsteps' = lsteps + 1

\* Linearization(val, jac, want_metric=wm)
LConstruct ==
    \E f \in LinFields, jac \in LinJacs, wm \in BOOLEAN :
        LinMake("init", MkObj(f, jac, NoneOp, wm, ""), Linearization(f, jac, NoneOp, wm))
LMakeVar ==
    \E f \in LinFields, wm \in BOOLEAN : LinMake("make_var", FieldObj(f), make_var(f, wm))
LMakeConst ==
    \E f \in LinFields, wm \in BOOLEAN : LinMake("make_const", FieldObj(f), make_const(f, wm))
\* make_partial_var(f, constants, wm); lact.b keeps the constants as the keys
\* of a field
ConstantsOf(b) == DOMAIN b.val.dom
LMakePartialVar ==
    \E f \in LinFields, constants \in SUBSET {"a", "b"}, wm \in BOOLEAN :
        /\ f.dom = DomAB
        /\ lx = NoObj
        /\ LinStep("make_partial_var", FieldObj(f),
                   FieldObj(FullField([k \in constants |-> f.dom[k]], 0)), ErrOp(""),
                   make_partial_var(f, constants, wm))
        /\ UNCHANGED lsteps
\* lx.add_metric(metric), which goes through lx.new
LAddMetric ==
    LinOp("add_metric", NoObj, ErrOp(""), add_metric(lx, ScalingOperator(LinDomain(lx), 1)))
\* -lx
LNeg == LinOp("neg", NoObj, ErrOp(""), Lin_neg(lx))
\* lx + other, lx - other
LAdd ==
    \E other \in LinOperands, neg \in BOOLEAN :
        /\ other.err = ""
        /\ IsMulti(lx.val.dom) = IsMulti(other.val.dom)
        /\ IsMulti(LinDomain(lx)) = IsMulti(LinDomain(other))
        /\ ~Disagree(lx.val.dom, other.val.dom)
        /\ ~Disagree(LinDomain(lx), LinDomain(other))
        /\ LinOp(IF neg THEN "sub" ELSE "add", other, ErrOp(""), Lin_myadd(lx, other, neg))
\* lx * other
LMul ==
    \E other \in LinOperands :
        /\ other.err = ""
        /\ IsMulti(LinDomain(lx)) = IsMulti(LinDomain(other))
        /\ ~Disagree(LinDomain(lx), LinDomain(other))
        /\ LinOp("mul", other, ErrOp(""), Lin_mul(lx, other))
\* a number, as against a Field or MultiField
NumberDT == MkDT("number")
Number(s) == MkField(NumberDT, [k \in {NoKey} |-> s])
\* val + other for a Field or MultiField of the domain of val, or a number
Broadcast(val, other) ==
    IF other.dom = NumberDT THEN FullField(val.dom, other.val[NoKey]) ELSE other
\* lx + other, other + lx, lx - other and other - lx for a number, a Field or
\* a MultiField other
LShift ==
    \E other \in FieldsOn(lx.val.dom, {1, 2}) \cup {Number(1)} :
        \/ \E neg \in BOOLEAN :
              LinOp(IF neg THEN "shift_sub" ELSE "shift_add", FieldObj(other), ErrOp(""),
                    Lin_addField(lx, Broadcast(lx.val, other), neg))
        \/ LinOp("shift_rsub", FieldObj(other), ErrOp(""),
                 Lin_addField(Lin_neg(lx), Broadcast(lx.val, other), FALSE))

\* g(lx) for an operator graph g on the domain of lx's value
LApply ==
    \E g \in LinGraphs :
        /\ g.dom = lx.val.dom
        /\ LinOp("apply", NoObj, g, Call(g, lx))

NextLin ==
    LConstruct \/ LMakeVar \/ LMakeConst \/ LMakePartialVar \/ LAddMetric
    \/ LNeg \/ LAdd \/ LMul \/ LShift \/ LApply

SpecLin == Init /\ [][NextLin]_vars

\* C8: every Linearization has a value on the target of its Jacobian, and its
\* domain is the domain of the Jacobian, whichever way it was produced; the
\* constructor raises ValueError exactly when it is handed a value and a
\* Jacobian that do not fit, and then no object is made.
C8_LinearizationInvariant ==
    /\ lx # NoObj =>
          /\ lx.err = "" /\ IsLin(lx)
          /\ lx.val.dom = lx.jac.tgt
          /\ LinDomain(lx) = lx.jac.dom /\ LinTarget(lx) = lx.val.dom
          /\ DOMAIN lx.jac.mat = (DOMAIN lx.val.dom) \X (DOMAIN LinDomain(lx))
    /\ lact.act = "init" =>
          /\ (lerr = "ValueError") = (lact.a.val.dom # lact.a.jac.tgt)
          /\ lerr = "ValueError" => lx = NoObj
          /\ lerr = "" => lx = lact.a
C8_Witness ==
    /\ lact.act = "apply" /\ lact.op.kind = "_OpProd" /\ lerr = ""
    /\ lsteps = 2 /\ lact.a.jac.cls # "ScalingOperator"

RECURSIVE PlainSum(_, _)
PlainSum(S, F) ==
    IF S = {} THEN 0 ELSE LET k == CHOOSE k \in S : TRUE IN F[k] + PlainSum(S \ {k}, F)
\* the branch of the sum op that _OpSum.apply evaluates at x
SumBranch(op, x, i) ==
    Call(op.ops[i], make_var(extract(x.val, op.ops[i].dom), x.want_metric))
\* r is the sum of the branches b1 and b2, seen through the Jacobian jac of the input
IsSumOfBranches(r, b1, b2, jac) ==
    LET K == DOMAIN jac.tgt
        J(p) == Entry(b1.jac, p) + Entry(b2.jac, p)
        M(p) == Entry(b1.metric, p) + Entry(b2.metric, p)
    IN /\ r.jac.dom = jac.dom
       /\ \A t \in DOMAIN r.jac.tgt, d \in DOMAIN jac.dom :
             r.jac.mat[<<t, d>>] = PlainSum(K, [k \in K |-> J(<<t, k>>) * jac.mat[<<k, d>>]])
       /\ (r.metric # NoneOp) = (b1.metric # NoneOp /\ b2.metric # NoneOp)
       /\ r.metric # NoneOp =>
             \A d1 \in DOMAIN jac.dom, d2 \in DOMAIN jac.dom :
                 r.metric.mat[<<d1, d2>>] =
                     PlainSum(K \X K, [q \in K \X K |->
                         jac.mat[<<q[1], d1>>] * M(q) * jac.mat[<<q[2], d2>>]])

\* C10: lin1 + lin2, and an operator sum applied to a Linearization, have as
\* Jacobian the sum of the two branch Jacobians, and a metric exactly if both
\* branches have one, which then is the sum of the two metrics; otherwise the
\* metric is None.
C10_SumOfBranches ==
    /\ lact.act = "add" /\ lerr = "" =>
          /\ HasUnion(lx.jac.dom, LinDomain(lact.a), LinDomain(lact.b))
          /\ \A p \in DOMAIN lx.jac.mat :
                lx.jac.mat[p] = Entry(lact.a.jac, p) + Entry(lact.b.jac, p)
          /\ (lx.metric # NoneOp) = (lact.a.metric # NoneOp /\ lact.b.metric # NoneOp)
          /\ lx.metric # NoneOp =>
                \A p \in DOMAIN lx.metric.mat :
                    lx.metric.mat[p] = Entry(lact.a.metric, p) + Entry(lact.b.metric, p)
    /\ lact.act = "apply" /\ lact.op.kind = "_OpSum" /\ lerr = "" =>
          IsSumOfBranches(lx, SumBranch(lact.op, lact.a, 1), SumBranch(lact.op, lact.a, 2),
                          lact.a.jac)
C10_Witness ==
    /\ lact.act = "add" /\ lerr = "" /\ lx.metric # NoneOp
    /\ lact.a.metric # NoneOp /\ lact.b.metric # NoneOp
    /\ \E p \in DOMAIN lx.jac.mat : lx.jac.mat[p] # 0

-----------------------------------------------------------------------------
(* MultiDomain.make and its interning cache.  A MultiDomain object is its  *)
(* position in heap, heap[i] is the mapping it holds; 0 stands for None.   *)

\* the mappings handed to make
MakeContents == {DomA, DomAB, [k \in {"a"} |-> "E"]}
\* a dict whose values are DomainTuples or bare Domains, a dict with a key
\* that is no string, and something that is no dict
DictInput(c, form, strkeys) ==
    [kind |-> "dict", strkeys |-> strkeys, ref |-> 0,
     items |-> [k \in DOMAIN c |-> [form |-> form, name |-> c[k]]]]
RefInput(i) == [kind |-> "MultiDomain", strkeys |-> TRUE, ref |-> i, items |-> EmptyMD]
MakeInputs ==
    {DictInput(c, form, TRUE) : c \in MakeContents, form \in {"DomainTuple", "Domain"}}
    \cup {DictInput(DomA, "DomainTuple", FALSE)}
    \cup {[kind |-> "list", strkeys |-> TRUE, ref |-> 0, items |-> EmptyMD]}

\* DomainTuple.make: the interned DomainTuple of a DomainTuple or of a Domain
DomainTuple_make(v) == v.name
\* MultiDomain.make up to the cache lookup (lines 58-65)
make_tmp(inp) ==
    IF inp.kind # "dict" \/ ~inp.strkeys THEN [err |-> "TypeError", tmp |-> EmptyMD]
    ELSE [err |-> "", tmp |-> [k \in DOMAIN inp.items |-> DomainTuple_make(inp.items[k])]]
\* MultiDomain._domainCache.get(tmp) (line 66)
CacheGetMutMiss(cache, t) == 0
CacheGet(cache, t) == cache[t]

Ret(c, o, ref, e) == [content |-> c, obj |-> o, ref |-> ref, err |-> e]

\* thread t calls make(inp): a MultiDomain is returned as it is, a wrong input raises
Enter(t, inp) ==
    /\ pc[t] = "idle"
    /\ IF inp.kind = "MultiDomain"
       THEN /\ returned' = returned \cup {Ret(heap[inp.ref], inp.ref, inp.ref, "")}
            /\ UNCHANGED <<pc, tmp>>
       ELSE LET r == make_tmp(inp)
            IN IF r.err # ""
               THEN /\ returned' = returned \cup {Ret(EmptyMD, 0, 0, r.err)}
                    /\ UNCHANGED <<pc, tmp>>
               ELSE /\ pc' = [pc EXCEPT ![t] = "get"]
                    /\ tmp' = [tmp EXCEPT ![t] = r.tmp]
                    /\ UNCHANGED returned
    /\ UNCHANGED <<domainCache, heap, stored, obj, graphVars, linVars, evalVars, auxVars>>
\* lines 66-68: the lookup, and the return on a hit
Get(t) ==
    /\ pc[t] = "get"
    /\ LET o == CacheGet(domainCache, tmp[t])
       IN IF o # 0
          THEN /\ returned' = returned \cup {Ret(tmp[t], o, 0, "")}
               /\ pc' = [pc EXCEPT ![t] = "idle"]
          ELSE /\ pc' = [pc EXCEPT ![t] = "construct"]
               /\ UNCHANGED returned
    /\ UNCHANGED <<domainCache, heap, stored, tmp, obj, graphVars, linVars, evalVars, auxVars>>
\* line 69: a new MultiDomain object
Construct(t) ==
    /\ pc[t] = "construct"
    /\ Len(heap) < MaxObjs
    /\ heap' = Append(heap, tmp[t])
    /\ obj' = [obj EXCEPT ![t] = Len(heap) + 1]
    /\ pc' = [pc EXCEPT ![t] = "store"]
    /\ UNCHANGED <<domainCache, stored, returned, tmp, graphVars, linVars, evalVars, auxVars>>
\* lines 70-71: the object is stored under its content and returned
Store(t) ==
    /\ pc[t] = "store"
    /\ domainCache' = [domainCache EXCEPT ![tmp[t]] = obj[t]]
    /\ stored' = Append(stored, [content |-> tmp[t], obj |-> obj[t]])
    /\ returned' = returned \cup {Ret(tmp[t], obj[t], 0, "")}
    /\ pc' = [pc EXCEPT ![t] = "idle"]
    /\ UNCHANGED <<heap, tmp, obj, graphVars, linVars, evalVars, auxVars>>

AnyInput == MakeInputs \cup {RefInput(i) : i \in 1..Len(heap)}
\* one process, one thread: a call begins when no call is running
SeqEnter == \E inp \in AnyInput : Enter(1, inp)
SeqGet == Get(1)
SeqConstruct == Construct(1)
SeqStore == Store(1)
NextMake == SeqEnter \/ SeqGet \/ SeqConstruct \/ SeqStore
SpecMake == Init /\ [][NextMake]_vars

\* several threads: a thread may be preempted between any two of the steps
ThreadEnter == \E t \in Threads, inp \in AnyInput : Enter(t, inp)
ThreadGet == \E t \in Threads : Get(t)
ThreadConstruct == \E t \in Threads : Construct(t)
ThreadStore == \E t \in Threads : Store(t)
NextThreads == ThreadEnter \/ ThreadGet \/ ThreadConstruct \/ ThreadStore
SpecThreads == Init /\ [][NextThreads]_vars

\* no entry of the cache was ever stored twice, and every stored entry is still there
EntriesKept ==
    /\ \A i, j \in 1..Len(stored) : stored[i].content = stored[j].content => i = j
    /\ \A i \in 1..Len(stored) : domainCache[stored[i].content] = stored[i].obj
\* calls for the same mapping returned the identical object, which holds that mapping
SameObject ==
    \A p, q \in returned :
        p.err = "" /\ q.err = "" =>
            /\ heap[p.obj] = p.content
            /\ p.content = q.content => p.obj = q.obj

\* C5: in one process, calls of make whose inputs describe the same mapping
\* return the identical object, make of a MultiDomain returns that object, and
\* the cache starts empty, gets an entry only when a content is made for the
\* first time and never loses or replaces an entry.
C5_Interning ==
    /\ SameObject
    /\ \A p \in returned : p.ref # 0 => p.obj = p.ref
    /\ EntriesKept
    /\ heap = <<>> => \A c \in MultiDomains : domainCache[c] = 0
    /\ \A c \in MultiDomains :
          domainCache[c] # 0 =>
              /\ \E i \in 1..Len(stored) : stored[i].content = c
              /\ heap[domainCache[c]] = c
    /\ Len(stored) <= Len(heap)
C5_Witness ==
    /\ Len(heap) = 2 /\ Len(stored) = 2
    /\ \E p \in returned : p.ref # 0
    /\ \E p \in returned : p.err = "TypeError"
    /\ pc[1] = "idle"

\* C6: with make calls interleaved in several threads, an entry of the cache is
\* never overwritten by a different object and all callers of the same content
\* receive the same object.
C6_InsertIfAbsent == EntriesKept /\ SameObject

-----------------------------------------------------------------------------
(* One operator graph evaluated by several threads.  A thread may be       *)
(* preempted between two leaves of the loop in _OpChain.apply; x is local  *)
(* to the call, the operator object is shared.                             *)

EvalGraphs ==
    { matmul(FunctionApplier(DomD, "exp"),
             matmul(FunctionApplier(DomD, "absolute"), FieldAdapter("a", "D", TRUE))),
      matmul(FunctionApplier(ScalarDT, "absolute"), OpSum_init(EnergyLeaf(DomA), EnergyLeaf(DomB))),
      matmul(FunctionApplier(DomD, "absolute"), ExpATimesB) }
EvalFields(d) ==
    IF d = DomAB THEN {Tangent(0, 2), Tangent(2, 1)} ELSE FieldsOn(d, {0, 2})
EvalInputs(op) ==
    {FieldObj(f) : f \in EvalFields(op.dom)} \cup {make_var(f, TRUE) : f \in EvalFields(op.dom)}

\* the operator object after its leaf i was applied to x: apply assigns to
\* locals only (lines 387-391, 463-479)
OpAfterApplyMutRemember(op, i, x) ==
    [op EXCEPT !.ops[i].out = x.val]
OpAfterApply(op, i, x) == op

\* the leaf that the loop of _OpChain.apply applies when i rounds remain:
\* reversed(self._ops) walks ops[N], ..., ops[1]
LeafAtMutForward(ops, i) == Len(ops) - i + 1
LeafAt(ops, i) == i
Round(leaf, x, out) == [leaf |-> leaf, inp |-> x, out |-> out]

\* the graph is built and handed to the threads
EShare ==
    /\ gop = ErrOp("")
    /\ gop' \in EvalGraphs
    /\ UNCHANGED <<ex, finished, graphVars, linVars, makeVars, auxVars>>
\* thread t calls gop(inp): __call__ and _check_input, up to the loop
EBegin ==
    \E t \in Threads :
        /\ gop # ErrOp("")
        /\ ~ex[t].busy
        /\ \E inp \in EvalInputs(gop) :
              ex' = [ex EXCEPT ![t] =
                        [busy |-> TRUE, inp |-> inp, i |-> Len(gop.ops),
                         x |-> IF IsLin(inp) THEN trivial_jac(inp) ELSE inp]]
        /\ trace' = [trace EXCEPT ![t] = <<>>]
        /\ UNCHANGED <<gop, finished, ftrace, graphVars, linVars, makeVars, viewVars, unionVars, lateVars>>
\* one round of the loop: x = op(x) for the next leaf
EStep ==
    \E t \in Threads :
        /\ ex[t].busy /\ ex[t].i > 0
        /\ LET leaf == LeafAt(gop.ops, ex[t].i)
               out == Call(gop.ops[leaf], ex[t].x)
           IN /\ ex' = [ex EXCEPT ![t].x = out, ![t].i = ex[t].i - 1]
              /\ gop' = OpAfterApply(gop, leaf, ex[t].x)
              /\ trace' = [trace EXCEPT ![t] = Append(trace[t], Round(leaf, ex[t].x, out))]
        /\ UNCHANGED <<finished, ftrace, graphVars, linVars, makeVars, viewVars, unionVars, lateVars>>
\* the call returns, through prepend_jac for a Linearization
EReturn ==
    \E t \in Threads :
        /\ ex[t].busy /\ ex[t].i = 0
        /\ finished' = [inp |-> ex[t].inp,
                        out |-> IF IsLin(ex[t].inp) THEN prepend_jac(ex[t].x, ex[t].inp.jac)
                                ELSE ex[t].x]
        /\ ex' = [ex EXCEPT ![t] = NoEx]
        /\ ftrace' = trace[t]
        /\ trace' = [trace EXCEPT ![t] = <<>>]
        /\ UNCHANGED <<gop, graphVars, linVars, makeVars, viewVars, unionVars, lateVars>>

NextEval == EShare \/ EBegin \/ EStep \/ EReturn
SpecEval == Init /\ [][NextEval]_vars

\* C7: evaluation changes no attribute of the operator graph and not the
\* input; under every interleaving of calls of the same graph on different
\* inputs each call returns what the graph returns for its input alone.
C7_ReentrantEvaluation ==
    /\ gop = ErrOp("") \/ gop \in EvalGraphs
    /\ finished # NoFin =>
          /\ finished.inp \in EvalInputs(gop)
          /\ finished.out = Call(gop, finished.inp)
    /\ \A t \in Threads :
          ex[t].busy =>
              /\ ex[t].inp \in EvalInputs(gop)
              /\ LET rest == ChainApply(gop.ops, ex[t].i, ex[t].x)
                     out == IF IsLin(ex[t].inp) THEN prepend_jac(rest, ex[t].inp.jac) ELSE rest
                 IN out = Call(gop, ex[t].inp)
C7_Witness ==
    /\ finished # NoFin /\ IsLin(finished.inp) /\ ObjRep(finished.out)
    /\ \A t \in Threads : ex[t].busy /\ ex[t].i = 1 /\ ex[t].inp # finished.inp
    /\ ex[1].inp # ex[2].inp

-----------------------------------------------------------------------------
(* Claims about the constant reported by folding (under Spec) *)

\* what folding hands to the collector for branch i of a sum or product
BranchFold(op, c, i) ==
    simplify_for_constant_input(op.ops[i], FALSE, extract_part(c, op.ops[i].dom))
\* branch result r has the key k in its target and does not report it constant
NonConstIn(r, k) == k \in DOMAIN r.op.tgt /\ (r.none \/ k \notin DOMAIN r.c.dom)

\* C11: the constant MultiField returned by folding a sum holds a key only if
\* no summand is non-constant on that key, in whichever order the summands
\* are collected.
C11_SumConstantKeys ==
    res.kind = "simplify" /\ Top.kind = "_OpSum" /\ res.simp.err = "" /\ ~res.simp.none =>
        \A k \in DOMAIN res.simp.c.dom, i \in {1, 2} :
            ~NonConstIn(BranchFold(Top, res.x.val, i), k)
\* what does hold: a key the first summand is non-constant on is never reported
C11_FirstBranchRespected ==
    res.kind = "simplify" /\ Top.kind = "_OpSum" /\ res.simp.err = "" /\ ~res.simp.none =>
        \A k \in DOMAIN res.simp.c.dom : ~NonConstIn(BranchFold(Top, res.x.val, 1), k)
-----------------------------------------------------------------------------
(* Claims about folding a whole domain (under Spec) *)

\* the inputs the folded operator can be called on
FoldedFieldInputs == FieldsOn(Top.dom, Vals)
ZeroJac(j, d, t) ==
    /\ j # NoneOp /\ j.dom = d /\ j.tgt = t
    /\ \A p \in DOMAIN j.mat : j.mat[p] = 0

\* C12: a constant input on the whole domain of op folds op into a
\* _ConstantOperator holding op(c), which is also the constant reported; on
\* every Field of the domain that operator returns op(c), on every
\* Linearization it returns op(c) with a Jacobian that is zero everywhere;
\* and folding with None returns the operator itself.
C12_WholeDomainFolds ==
    /\ res.kind = "simplify" /\ res.x.val.dom = Top.dom =>
          LET out == Call(Top, res.x).val
              co == res.simp.op
          IN /\ res.simp.err = "" /\ ~res.simp.none
             /\ co.kind = "_ConstantOperator" /\ co.out = out /\ co.dom = Top.dom
             /\ res.simp.c = out
             /\ \A f \in FoldedFieldInputs :
                   /\ Call(co, FieldObj(f)) = FieldObj(out)
                   /\ \A wm \in BOOLEAN :
                         LET y == Call(co, make_var(f, wm))
                         IN /\ y.err = "" /\ y.val = out
                            /\ ZeroJac(y.jac, Top.dom, out.dom)
    /\ res.kind = "simplifyNone" => res.simp.err = "" /\ res.simp.none /\ res.simp.op = Top

\* a composite graph was folded on its whole domain at an input where it is
\* not constant in x
C12_Witness ==
    /\ res.kind = "simplify" /\ res.x.val.dom = Top.dom
    /\ Top.kind \in {"_OpChain", "_OpSum", "_OpProd"}
    /\ res.simp.op.kind = "_ConstantOperator"
    /\ \E f \in FoldedFieldInputs : Call(Top, FieldObj(f)).val # res.simp.op.out
-----------------------------------------------------------------------------
(* Claims about folding part of a domain (under Spec) *)

\* the constant input is on a proper, non-empty subset of the keys of op
ProperPart(op, c) ==
    /\ IsMulti(op.dom)
    /\ DOMAIN c.dom # {} /\ DOMAIN c.dom # DOMAIN op.dom
    /\ DOMAIN c.dom \subseteq DOMAIN op.dom
\* the domain of op without the keys of c
ReducedDomain(op, c) == [k \in (DOMAIN op.dom) \ (DOMAIN c.dom) |-> op.dom[k]]

\* C13: folding a constant input on a proper subset K of the keys returns an
\* operator whose domain is the domain of the graph without K; for exp(a)*b
\* folded with {a: 0} it is an operator on {b: D} that returns b.
C13_FoldedDomainShrinks ==
    res.kind = "simplify" /\ ProperPart(Top, res.x.val) /\ res.simp.err = "" =>
        /\ res.simp.op.dom = ReducedDomain(Top, res.x.val)
        /\ Top = ExpATimesB /\ DOMAIN res.x.val.dom = {"a"} /\ res.x.val.val["a"] = 0 =>
              \A b \in Vals :
                 Call(res.simp.op, FieldObj(MkField(DomB, [k \in {"b"} |-> b]))).val
                    = MkField(DomD, [t \in {NoKey} |-> b])
\* what does hold: the folded operator keeps the domain of the graph, and
\* exp(a)*b folded with {a: 0} returns b on every input {a: _, b: b}
C13_FoldedDomainKept ==
    res.kind = "simplify" /\ ProperPart(Top, res.x.val) /\ res.simp.err = "" =>
        /\ res.simp.op.dom = Top.dom
        /\ Top = ExpATimesB /\ DOMAIN res.x.val.dom = {"a"} /\ res.x.val.val["a"] = 0 =>
              \A a \in Vals, b \in Vals :
                 Call(res.simp.op, FieldObj(Tangent(a, b))).val
                    = MkField(DomD, [t \in {NoKey} |-> b])
-----------------------------------------------------------------------------
(* Linear operators with application modes, and their adjoint and inverse   *)
(* views.  A mode is one of TIMES = 1, ADJOINT_TIMES = 2, INVERSE_TIMES = 4,  *)
(* ADJOINT_INVERSE_TIMES = 8; a capability is a sum of modes; a transform    *)
(* code is 1 (adjoint), 2 (inverse) or 3 (adjoint inverse).                  *)

Modes == {1, 2, 4, 8}
Trafos == 1..3
\* 1 << i, and LinearOperator._ilog
Pow2(i) == IF i = 0 THEN 1 ELSE IF i = 1 THEN 2 ELSE IF i = 2 THEN 4 ELSE 8
ilog(mode) == CHOOSE i \in 0..3 : Pow2(i) = mode
RECURSIVE Xor(_, _), BitAnd(_, _)
\* a ^ b
Xor(a, b) ==
    IF a = 0 THEN b ELSE IF b = 0 THEN a
    ELSE ((a + b) % 2) + 2 * Xor(a \div 2, b \div 2)
\* a & b
BitAnd(a, b) ==
    IF a = 0 \/ b = 0 THEN 0
    ELSE (a % 2) * (b % 2) + 2 * BitAnd(a \div 2, b \div 2)
\* LinearOperator._modeTable[trafo][i]: the mode of the base operator that
\* serves mode 1 << i of the view
modeTable(trafo, i) == Pow2(Xor(i, trafo))
\* LinearOperator._capTable[trafo][cap]: the modes the view supports
capTable(trafo, cap) ==
    LET has(m) == IF BitAnd(cap, modeTable(trafo, ilog(m))) # 0 THEN m ELSE 0
    IN has(1) + has(2) + has(4) + has(8)

\* the operators of a BlockDiagonalOperator: None (unity), a NullOperator,
\* which has no inverse, or a ScalingOperator with the factor -1
Children == {"None", "NullOperator", "ScalingOperator"}
ChildCapability(c) == IF c = "NullOperator" THEN 3 ELSE 15
ChildApply(c, v, mode) ==
    IF c = "None" THEN v ELSE IF c = "NullOperator" THEN 0 ELSE VNeg(v)

MkView(cls, op, trafo, d, cap, ops, e) ==
    [cls |-> cls, op |-> op, trafo |-> trafo, domain |-> d, capability |-> cap,
     ops |-> ops, err |-> e]
RECURSIVE CapAll(_, _)
CapAll(operators, K) ==
    IF K = {} THEN 15
    ELSE LET k == CHOOSE q \in K : TRUE
         IN BitAnd(CapAll(operators, K \ {k}), ChildCapability(operators[k]))
\* BlockDiagonalOperator.__init__
BlockDiagonalOperator_init(d, operators) ==
    IF ~IsMulti(d) THEN MkView("", <<>>, 0, EmptyMD, 0, <<>>, "TypeError")
    ELSE IF \E key \in DOMAIN d : key \notin DOMAIN operators
    THEN MkView("", <<>>, 0, EmptyMD, 0, <<>>, "KeyError")
    ELSE MkView("BlockDiagonalOperator", <<>>, 0, d, CapAll(operators, DOMAIN d), operators, "")

\* LinearOperator._check_mode
check_mode(op, mode) ==
    IF mode \notin Modes THEN "NotImplementedError"
    ELSE IF BitAnd(mode, op.capability) = 0 THEN "NotImplementedError"
    ELSE ""
\* EndomorphicOperator._check_input
Endomorphic_check_input(op, x, mode) ==
    LET e == check_mode(op, mode)
    IN IF e # "" THEN e
       ELSE IF op.domain # x.dom THEN "ValueError"
       ELSE ""
\* BlockDiagonalOperator.apply
BlockDiagonalOperator_apply(op, x, mode) ==
    LET e == Endomorphic_check_input(op, x, mode)
    IN IF e # "" THEN [err |-> e, val |-> EmptyField]
       ELSE [err |-> "", val |->
                MkField(op.domain, [k \in DOMAIN op.domain |-> ChildApply(op.ops[k], x.val[k], mode)])]

\* OperatorAdapter.__init__ over an endomorphic operator
OperatorAdapter_init(op, op_transform) ==
    IF op_transform < 1 \/ op_transform > 3
    THEN MkView("", <<>>, 0, EmptyMD, 0, <<>>, "ValueError")
    ELSE MkView("OperatorAdapter", <<op>>, op_transform, op.domain,
                capTable(op_transform, op.capability), <<>>, "")
\* OperatorAdapter._flip_modes
OperatorAdapter_flip_modesMutNest(self, trafo) == OperatorAdapter_init(self, trafo)
OperatorAdapter_flip_modes(self, trafo) ==
    LET newtrafo == Xor(trafo, self.trafo)
    IN IF newtrafo = 0 THEN self.op[1] ELSE OperatorAdapter_init(self.op[1], newtrafo)
\* LinearOperator._flip_modes
LinearOperator_flip_modes(self, trafo) ==
    IF trafo = 0 THEN self ELSE OperatorAdapter_init(self, trafo)
flip_modes(self, trafo) ==
    IF self.cls = "OperatorAdapter" THEN OperatorAdapter_flip_modes(self, trafo)
    ELSE LinearOperator_flip_modes(self, trafo)

\* op.apply(x, mode); OperatorAdapter.apply hands x to its operator in the
\* mode the tables give
RECURSIVE LinApply(_, _, _)
LinApply(op, x, mode) ==
    IF op.cls = "OperatorAdapter"
    THEN LinApply(op.op[1], x, modeTable(op.trafo, ilog(mode)))
    ELSE BlockDiagonalOperator_apply(op, x, mode)

\* the fields operators are applied to
ViewFields == FieldsOn(DomA, {1, 2}) \cup FieldsOn(DomAB, {1, 2})

\* the dictionaries handed to the constructor: an item for some of the keys
OperatorDicts(d) == UNION {[K -> Children] : K \in SUBSET DOMAIN d}
\* a BlockDiagonalOperator is constructed; vact.before keeps the arguments,
\* and a constructor that raises leaves no operator behind
VNew ==
    /\ view = NoView
    /\ \E d \in {DomA, DomAB} : \E operators \in OperatorDicts(d) :
          LET r == BlockDiagonalOperator_init(d, operators)
          IN /\ view' = IF r.err = "" THEN r ELSE NoView
             /\ vout' = [NoVout EXCEPT !.err = r.err]
             /\ vact' = [NoVact EXCEPT !.act = "new",
                                       !.before = MkView("dict", <<>>, 0, d, 0, operators, "")]
    /\ UNCHANGED <<graphVars, linVars, makeVars, evalVars, unionVars, traceVars, lateVars>>

\* op.adjoint, op.inverse or op._flip_modes(3) replaces the operator at hand
VFlip ==
    /\ view # NoView
    /\ \E t \in Trafos :
          /\ view' = flip_modes(view, t)
          /\ vact' = [NoVact EXCEPT !.act = "flip", !.t = t, !.before = view]
    /\ vout' = NoVout
    /\ UNCHANGED <<graphVars, linVars, makeVars, evalVars, unionVars, traceVars, lateVars>>

\* the operator at hand is applied to a field in some mode
VApply ==
    /\ view # NoView
    /\ \E x \in ViewFields, mode \in Modes :
          /\ vout' = LinApply(view, x, mode)
          /\ vact' = [NoVact EXCEPT !.act = "apply", !.x = x, !.mode = mode, !.before = view]
    /\ view' = view
    /\ UNCHANGED <<graphVars, linVars, makeVars, evalVars, unionVars, traceVars, lateVars>>

NextViews == VNew \/ VFlip \/ VApply
SpecViews == Init /\ [][NextViews]_vars

\* C14: an OperatorAdapter always sits directly on an operator that is not an
\* adapter and has the code 1, 2 or 3; a transform t requested of an adapter
\* with the code c over B returns B when t XOR c = 0 and else an adapter over B
\* with the code t XOR c.
C14_FlatViews ==
    /\ view.cls = "OperatorAdapter" =>
          view.err = "" /\ view.trafo \in 1..3 /\ view.op[1].cls = "BlockDiagonalOperator"
    /\ vact.act = "flip" /\ vact.before.cls = "OperatorAdapter" =>
          LET B == vact.before.op[1]
              n == Xor(vact.t, vact.before.trafo)
          IN IF n = 0 THEN view = B
             ELSE view.cls = "OperatorAdapter" /\ view.op = <<B>> /\ view.trafo = n
\* op.adjoint.inverse: the inverse of an adjoint view is the adjoint-inverse
\* view of the operator
C14_Witness ==
    /\ vact.act = "flip" /\ vact.before.cls = "OperatorAdapter"
    /\ vact.before.trafo = 1 /\ vact.t = 2
    /\ view.cls = "OperatorAdapter" /\ view.trafo = 3 /\ view.op[1] = vact.before.op[1]

\* C15: an operator applied to a field of another domain in a mode it does not
\* support raises the domain error (ValueError), not the capability error.
C15_DomainCheckedFirst ==
    vact.act = "apply" /\ vact.x.dom # view.domain /\ BitAnd(vact.mode, view.capability) = 0
        => vout.err = "ValueError"
\* what does hold: the capability error is raised
C15_ModeCheckedFirst ==
    vact.act = "apply" /\ vact.x.dom # view.domain /\ BitAnd(vact.mode, view.capability) = 0
        => vout.err = "NotImplementedError"
-----------------------------------------------------------------------------
(* Claims about the input check of apply (under Spec) *)

\* the calls op.apply(x) makes after its input check: one per operand of a
\* combinator (a chain stops at the first operand that raises), one pointwise
\* evaluation for a _FunctionApplier, none for a _ConstantOperator
RECURSIVE ChainEvaluations(_, _, _)
ChainEvaluations(ops, i, x) ==
    IF i = 0 \/ x.err # "" THEN 0
    ELSE 1 + ChainEvaluations(ops, i - 1, Call(ops[i], x))
Evaluations(op, x) ==
    IF check_input(op, x) # "" THEN 0
    ELSE IF op.kind = "_OpChain" THEN ChainEvaluations(op.ops, Len(op.ops), x)
    ELSE IF op.kind \in {"_OpProd", "_OpSum"} THEN 2
    ELSE IF op.kind = "_FunctionApplier" THEN 1
    ELSE 0
OperatorKinds == {"_OpChain", "_OpSum", "_OpProd", "_ConstantOperator", "_FunctionApplier"}

\* C16: apply of a chain, sum, product, constant operator or elementwise
\* function raises TypeError for an input that is no Field, MultiField or
\* Linearization, ValueError for an input of another domain and ValueError
\* for a Linearization whose Jacobian is not the identity, and has evaluated
\* nothing when it raises.
C16_InputChecked ==
    res.kind = "apply" /\ res.simp.op.kind \in OperatorKinds =>
        LET x == res.x
            op == res.simp.op
            bad == \/ x.val = NoneVal
                   \/ x.val.dom # op.dom
                   \/ IsLin(x) /\ ~SameMap(x.jac, ScalingOperator(x.jac.dom, 1))
        IN /\ bad
           /\ res.out.err = (IF x.val = NoneVal THEN "TypeError" ELSE "ValueError")
           /\ Evaluations(op, x) = 0
\* a sum was applied to a Linearization of its own domain whose Jacobian is twice the identity
C16_Witness ==
    /\ res.kind = "apply" /\ res.simp.op.kind = "_OpSum"
    /\ IsLin(res.x) /\ res.x.val.dom = res.simp.op.dom /\ res.x.jac.factor = 2
    /\ res.out.err = "ValueError"
-----------------------------------------------------------------------------
(* MultiDomain.union of several MultiDomains, in one thread.  The inputs    *)
(* are interned objects of the heap; the set built from them is walked in   *)
(* an order the caller does not control.                                    *)

\* the loop of union over the domains in the order doms, from res
RECURSIVE UnionLoop(_, _, _), UnionLoopMutFirstWins(_, _, _)
UnionLoopMutFirstWins(doms, i, acc) ==
    IF i > Len(doms) THEN [err |-> "", dom |-> acc]
    ELSE UnionLoopMutFirstWins(doms, i + 1, UnionMap(acc, doms[i]))
UnionLoop(doms, i, acc) ==
    IF i > Len(doms) THEN [err |-> "", dom |-> acc]
    ELSE IF UnionConflict(acc, doms[i]) THEN [err |-> "ValueError", dom |-> EmptyMD]
    ELSE UnionLoop(doms, i + 1, UnionMap(acc, doms[i]))

\* the orders in which a set can be walked
Orders(S) ==
    {o \in [1..Cardinality(S) -> S] : \A i, j \in 1..Cardinality(S) : o[i] = o[j] => i = j}
\* the dicts MultiDomains are made from
UnionContents == {DomA, DomB, [k \in {"a"} |-> "E"]}

\* MultiDomain.make(content) in one piece: the cached object, or a new one
\* that is stored in the cache
MakeInterned(content, act, ids, order) ==
    LET o == CacheGet(domainCache, content)
    IN IF o # 0
       THEN /\ ulast' = [act |-> act, ids |-> ids, order |-> order, err |-> "", obj |-> o]
            /\ UNCHANGED <<domainCache, heap>>
       ELSE /\ Len(heap) < MaxDomains
            /\ heap' = Append(heap, content)
            /\ domainCache' = [domainCache EXCEPT ![content] = Len(heap) + 1]
            /\ ulast' = [act |-> act, ids |-> ids, order |-> order, err |-> "",
                         obj |-> Len(heap) + 1]

\* MultiDomain.make of a dict
UMake ==
    /\ \E content \in UnionContents : MakeInterned(content, "make", <<>>, <<>>)
    /\ UNCHANGED <<stored, returned, pc, tmp, obj, graphVars, linVars, evalVars, viewVars, traceVars, lateVars>>

\* MultiDomain.union(inp) of a list of up to MaxUnionInputs objects
UUnion ==
    /\ \E n \in 0..MaxUnionInputs : \E ids \in [1..n -> 1..Len(heap)] :
          LET inp == {ids[i] : i \in 1..n}
          IN \E order \in Orders({heap[o] : o \in inp}) :
                IF Cardinality(inp) = 1
                THEN /\ ulast' = [act |-> "union", ids |-> ids, order |-> order, err |-> "",
                                  obj |-> CHOOSE o \in inp : TRUE]
                     /\ UNCHANGED <<domainCache, heap>>
                ELSE LET r == UnionLoop(order, 1, EmptyMD)
                     IN IF r.err # ""
                        THEN /\ ulast' = [act |-> "union", ids |-> ids, order |-> order,
                                          err |-> r.err, obj |-> 0]
                             /\ UNCHANGED <<domainCache, heap>>
                        ELSE MakeInterned(r.dom, "union", ids, order)
    /\ UNCHANGED <<stored, returned, pc, tmp, obj, graphVars, linVars, evalVars, viewVars, traceVars, lateVars>>

NextUnion == UMake \/ UUnion
SpecUnion == Init /\ [][NextUnion]_vars

UnionInputs == {heap[ulast.ids[i]] : i \in 1..Len(ulast.ids)}
\* C17: union of MultiDomains that agree on every shared key returns the
\* interned MultiDomain that has every key of every input with the input's
\* DomainTuple; union of MultiDomains two of which map a key to different
\* DomainTuples raises ValueError; both whatever the order of the inputs and
\* whatever the order in which they are walked.
C17_Union ==
    ulast.act = "union" =>
        IF \E d1, d2 \in UnionInputs : UnionConflict(d1, d2)
        THEN ulast.err = "ValueError"
        ELSE /\ ulast.err = "" /\ ulast.obj \in 1..Len(heap)
             /\ LET c == heap[ulast.obj]
                IN /\ DOMAIN c = UNION {DOMAIN d : d \in UnionInputs}
                   /\ \A d \in UnionInputs : \A k \in DOMAIN d : c[k] = d[k]
                   /\ domainCache[c] = ulast.obj
                   /\ \A i \in 1..Len(heap) : heap[i] = c => i = ulast.obj
\* three different MultiDomains were united, walked in another order than
\* the one they were handed in, into a MultiDomain with two keys
C17_Witness ==
    /\ ulast.act = "union" /\ Len(ulast.ids) = 3 /\ Cardinality(UnionInputs) = 3
    /\ ulast.order # [i \in 1..3 |-> heap[ulast.ids[i]]]
    /\ ulast.err = "" /\ DOMAIN heap[ulast.obj] = {"a", "b"}
-----------------------------------------------------------------------------
(* Claims about partial variables and shifts (under SpecLin) *)

\* the Jacobian is the identity on the keys outside constants and zero elsewhere
IdentityOff(jac, d, constants) ==
    /\ jac.dom = d /\ jac.tgt = d
    /\ \A t \in DOMAIN d, k \in DOMAIN d :
          Entry(jac, <<t, k>>) = (IF t = k /\ k \notin constants THEN 1 ELSE 0)
\* the keys on which a Jacobian made by make_partial_var is zero
FrozenKeys(jac) == {k \in DOMAIN jac.dom : Entry(jac, <<k, k>>) = 0}

\* C18: make_partial_var(field, constants) has the value field and a Jacobian
\* that is the identity on the keys outside constants and zero on the keys in
\* constants; with no constants it is make_var(field); and a scalar function
\* applied to it has a gradient that is zero on the constant keys.
C18_PartialVar ==
    /\ lact.act = "make_partial_var" =>
          /\ lerr = "" /\ lx.val = lact.a.val
          /\ IdentityOff(lx.jac, lx.val.dom, ConstantsOf(lact.b))
          /\ ConstantsOf(lact.b) = {} => lx = make_var(lact.a.val, lx.want_metric)
    /\ lact.act = "apply" /\ lact.a.jac.cls = "BlockDiagonalOperator"
          /\ lerr = "" /\ lx.val.dom = ScalarDT =>
          \A k \in FrozenKeys(lact.a.jac) : Entry(lx.jac, <<NoKey, k>>) = 0
\* the sum of the energies was applied to a partial variable with b held
\* constant, where the gradient with respect to b is not zero
C18_Witness ==
    /\ lact.act = "apply" /\ lact.a.jac.cls = "BlockDiagonalOperator" /\ lerr = ""
    /\ lx.val.dom = ScalarDT /\ FrozenKeys(lact.a.jac) = {"b"}
    /\ Entry(Call(lact.op, make_var(lact.a.val, FALSE)).jac, <<NoKey, "b">>) # 0
    /\ Entry(lx.jac, <<NoKey, "b">>) = 0

\* the value of a was shifted by other, upwards or downwards
ShiftedBy(val, a, other, neg) ==
    /\ val.dom = a.dom
    /\ \A k \in DOMAIN a.dom :
          val.val[k] = a.val[k] + (IF neg THEN -1 ELSE 1) * Broadcast(a, other).val[k]
\* C19: lin + other and lin - other for a number, a Field or a MultiField
\* other give a Linearization with the value shifted by other and with the
\* Jacobian, the metric and the want_metric flag of lin.
C19_ShiftKeepsJacobian ==
    lact.act \in {"shift_add", "shift_sub"} =>
        /\ lerr = ""
        /\ ShiftedBy(lx.val, lact.a.val, lact.b.val, lact.act = "shift_sub")
        /\ lx.jac = lact.a.jac
        /\ lx.metric = lact.a.metric
        /\ lx.want_metric = lact.a.want_metric
\* other - lin goes through -lin: the Jacobian is the negated one
C19_ReversedSubtraction ==
    lact.act = "shift_rsub" =>
        /\ lerr = ""
        /\ lx.jac = Lin_neg(lact.a).jac
        /\ lx.want_metric = lact.a.want_metric
\* a MultiField was subtracted from a Linearization that carries a metric and
\* a Jacobian other than the identity
C19_Witness ==
    /\ lact.act = "shift_sub" /\ lerr = ""
    /\ IsMulti(lact.b.val.dom)
    /\ lact.a.metric # NoneOp /\ lact.a.want_metric
    /\ lact.a.jac.cls # "ScalingOperator"
    /\ lx.val # lact.a.val /\ lx.metric = lact.a.metric
-----------------------------------------------------------------------------
(* Claims about the order of a chain's evaluation (under SpecEval) *)

\* the rounds tr are the first rounds of the chain ops on the input x: round k
\* applies leaf N-k+1 to x for k = 1 and to what round k-1 returned otherwise
RightToLeft(tr, ops, x) ==
    /\ Len(tr) <= Len(ops)
    /\ \A k \in 1..Len(tr) :
          /\ tr[k].leaf = Len(ops) - k + 1
          /\ tr[k].inp = (IF k = 1 THEN x ELSE tr[k - 1].out)
          /\ tr[k].out = Call(ops[tr[k].leaf], tr[k].inp)
LoopInput(inp) == IF IsLin(inp) THEN trivial_jac(inp) ELSE inp

\* C20: a call of a chain of N leaves applies leaf N first and leaf 1 last,
\* every leaf once, each to what the leaf applied before it returned and the
\* first to the input; what the last one returns is what the call returns.
C20_RightToLeft ==
    /\ \A t \in Threads :
          ex[t].busy =>
              /\ RightToLeft(trace[t], gop.ops, LoopInput(ex[t].inp))
              /\ Len(trace[t]) = Len(gop.ops) - ex[t].i
    /\ finished # NoFin =>
          /\ RightToLeft(ftrace, gop.ops, LoopInput(finished.inp))
          /\ Len(ftrace) = Len(gop.ops)
          /\ \A l \in 1..Len(gop.ops) : Cardinality({k \in 1..Len(ftrace) : ftrace[k].leaf = l}) = 1
          /\ ~IsLin(finished.inp) => finished.out = ftrace[Len(ftrace)].out
\* a call of a chain of three leaves returned while the other thread was in
\* the middle of its own call, and the first and the last leaf changed the value
C20_Witness ==
    /\ finished # NoFin /\ Len(ftrace) = 3
    /\ ftrace[1].leaf = 3 /\ ftrace[3].leaf = 1
    /\ \A k \in {1, 3} : ftrace[k].out.val # ftrace[k].inp.val
    /\ \E t \in Threads : ex[t].busy /\ Len(trace[t]) \in 1..2
-----------------------------------------------------------------------------
(* Claims about calling an operator (under Spec) *)

\* out is what op gives on the Linearization x: the value of op at the value
\* of x, and the Jacobian of op there after the Jacobian of x
Propagated(op, x, out) ==
    LET v == Call(op, FieldObj(x.val))
        J == Call(op, make_var(x.val, x.want_metric)).jac
    IN /\ out.err = "" /\ IsLin(out)
       /\ out.val = v.val
       /\ out.jac.dom = x.jac.dom /\ out.jac.tgt = op.tgt
       /\ SameMap(out.jac, LinChain(J, x.jac))

\* C21: an operator called on a Field or MultiField returns a value without
\* a Jacobian; called on a Linearization it returns a Linearization with the
\* operator's value at the input's value and the operator's Jacobian composed
\* with the input's; called on an operator it returns the chain of the two;
\* called on anything else it raises TypeError.
C21_CallDispatch ==
    /\ res.kind = "field" => res.out.err = "" /\ ~IsLin(res.out) /\ res.out.metric = NoneOp
    /\ res.kind \in {"lin", "call"} => Propagated(Top, res.x, res.out)
    /\ res.kind = "call_other" => res.out.err = "TypeError"
    /\ last.act = "call" /\ err = "" =>
          /\ Top.kind = "_OpChain" /\ Top.ops = Flat(last.a) \o Flat(last.b)
          /\ Top.dom = last.b.dom /\ Top.tgt = last.a.tgt
\* a product was called on a Linearization with twice the identity as Jacobian
\* and gave a Jacobian that is not zero
C21_Witness ==
    /\ res.kind = "call" /\ Top.kind = "_OpProd"
    /\ res.x.jac.factor = 2
    /\ \E p \in DOMAIN res.out.jac.mat : res.out.jac.mat[p] # 0
-----------------------------------------------------------------------------
(* EndomorphicOperator (nifty/operators/endomorphic_operator.py): the      *)
(* default modes of an operator whose domain is its target.  An operator   *)
(* is the two properties it declares and the factor its times multiplies   *)
(* with; a call gives the error raised, the value returned and the methods *)
(* the call went through.                                                  *)

EndoFactors == {1, 2, 3}
EndoInputs == {-2, -1, 0, 1, 2}
EndoMethods == {"times", "adjoint_times", "inverse_times", "adjoint_inverse_times"}
EndoOps == [self_adjoint : BOOLEAN, unitary : BOOLEAN, factor : EndoFactors]

EndoOut(e, v, path) == [err |-> e, val |-> v, path |-> path]
Via(name, out) == [out EXCEPT !.path = <<name>> \o @]

\* LinearOperator.times of a concrete operator: the product with its factor
times(self, x) == EndoOut("", VMul(self.factor, x), <<"times">>)
\* the methods of LinearOperator that EndomorphicOperator falls back to
LinearOperator_fallback(name) == EndoOut("NotImplementedError", Unrep, <<"LinearOperator." \o name>>)

inverse_timesMutUnitaryOnly(self, x) ==
    IF self.unitary
    THEN Via("inverse_times", times(self, x))
    ELSE Via("inverse_times", LinearOperator_fallback("inverse_times"))
inverse_times(self, x) ==
    IF self.self_adjoint /\ self.unitary
    THEN Via("inverse_times", times(self, x))
    ELSE Via("inverse_times", LinearOperator_fallback("inverse_times"))

adjoint_times(self, x) ==
    IF self.self_adjoint
    THEN Via("adjoint_times", times(self, x))
    ELSE Via("adjoint_times", LinearOperator_fallback("adjoint_times"))

adjoint_inverse_times(self, x) ==
    IF self.self_adjoint
    THEN Via("adjoint_inverse_times", inverse_times(self, x))
    ELSE Via("adjoint_inverse_times", LinearOperator_fallback("adjoint_inverse_times"))

EndoDone(name, self, x, out) ==
    /\ ecall' = [method |-> name, op |-> self, x |-> x, out |-> out]
    /\ UNCHANGED <<oldVars, reg, cg, nuts, jcg>>

EndoTimes == \E self \in EndoOps, x \in EndoInputs :
    EndoDone("times", self, x, times(self, x))
EndoAdjointTimes == \E self \in EndoOps, x \in EndoInputs :
    EndoDone("adjoint_times", self, x, adjoint_times(self, x))
EndoInverseTimes == \E self \in EndoOps, x \in EndoInputs :
    EndoDone("inverse_times", self, x, inverse_times(self, x))
EndoAdjointInverseTimes == \E self \in EndoOps, x \in EndoInputs :
    EndoDone("adjoint_inverse_times", self, x, adjoint_inverse_times(self, x))

NextEndo ==
    \/ EndoTimes
    \/ EndoAdjointTimes
    \/ EndoInverseTimes
    \/ EndoAdjointInverseTimes
SpecEndo == Init /\ [][NextEndo]_vars

\* the call went from method a straight to method b
Delegates(out, a, b) == Len(out.path) >= 2 /\ out.path[1] = a /\ out.path[2] = b
\* the call ended in the fallback of LinearOperator and raised
Raised(out) ==
    /\ out.err = "NotImplementedError" /\ out.val = Unrep
    /\ out.path[Len(out.path)] \notin EndoMethods
\* the call returned what times returns
GaveTimes(c) == c.out.err = "" /\ c.out.val = VMul(c.op.factor, c.x)

\* C22: adjoint_times delegates to times exactly when the operator is
\* self-adjoint, inverse_times delegates to times exactly when it is
\* self-adjoint and unitary, adjoint_inverse_times delegates to inverse_times
\* exactly when it is self-adjoint; every other call ends in the generic
\* fallback, which raises instead of returning a result.
C22_DefaultModes ==
    ecall # NoEcall =>
    LET c == ecall
        o == c.out
    IN /\ c.method = "adjoint_times" =>
            /\ Delegates(o, "adjoint_times", "times") <=> c.op.self_adjoint
            /\ IF c.op.self_adjoint THEN GaveTimes(c) ELSE Raised(o) /\ Len(o.path) = 2
       /\ c.method = "inverse_times" =>
            /\ Delegates(o, "inverse_times", "times")
                   <=> (c.op.self_adjoint /\ c.op.unitary)
            /\ IF c.op.self_adjoint /\ c.op.unitary
               THEN GaveTimes(c) ELSE Raised(o) /\ Len(o.path) = 2
       /\ c.method = "adjoint_inverse_times" =>
            /\ Delegates(o, "adjoint_inverse_times", "inverse_times") <=> c.op.self_adjoint
            /\ IF c.op.self_adjoint /\ c.op.unitary THEN GaveTimes(c) ELSE Raised(o)
            /\ ~c.op.self_adjoint => Len(o.path) = 2
\* adjoint_inverse_times of a self-adjoint operator that is not unitary went
\* to inverse_times and from there to the fallback, which raised
C22_Witness ==
    /\ ecall # NoEcall /\ ecall.method = "adjoint_inverse_times"
    /\ ecall.op.self_adjoint /\ ~ecall.op.unitary /\ ecall.op.factor = 2 /\ ecall.x = 1
    /\ ecall.out.path = <<"adjoint_inverse_times", "inverse_times", "LinearOperator.inverse_times">>
    /\ ecall.out.err = "NotImplementedError"
-----------------------------------------------------------------------------
(* Lifting an elementwise function (Operator.ptw, _FunctionApplier): the   *)
(* registry ptw_dict can be written to by the user, a node is built from a *)
(* name, and the node is applied to a value.  reg.built remembers the      *)
(* registry as it was when the node was built.                             *)

PtwInputs == {-2, -1, 0, 1, 2}

\* Field.ptw(name): ptw_dict[name][0] applied to the value
Field_ptw(table, name, v) ==
    IF table[name] = Unregistered THEN [err |-> "KeyError", val |-> Unrep]
    ELSE [err |-> "", val |-> PtwFwd(table[name], v)]

\* _FunctionApplier.__init__: keeps the name
FunctionApplier_init(funcname) == [funcname |-> funcname]
\* _FunctionApplier.apply: x.ptw(self._funcname) with the registry of the moment
FunctionApplier_apply(self, table, v) == Field_ptw(table, self.funcname, v)

\* pointwise.ptw_dict[name] = (f, f_and_derivative)
PtwRegister == \E n \in RegNames, f \in PtwNames \cup {Unregistered} :
    /\ reg.table[n] # f
    /\ n = "absolute" => f # Unregistered
    /\ reg' = [reg EXCEPT !.table[n] = f]
    /\ UNCHANGED <<oldVars, ecall, cg, nuts, jcg>>

\* op.ptw(name)
PtwLift == \E n \in RegNames :
    /\ reg' = [reg EXCEPT !.node = FunctionApplier_init(n), !.built = reg.table,
                          !.call = NoPtwCall]
    /\ UNCHANGED <<oldVars, ecall, cg, nuts, jcg>>

\* a call of the node
PtwApply == \E v \in PtwInputs :
    /\ reg.node # NoNode
    /\ reg' = [reg EXCEPT !.call = [x |-> v, done |-> TRUE,
                                   out |-> FunctionApplier_apply(reg.node, reg.table, v)]]
    /\ UNCHANGED <<oldVars, ecall, cg, nuts, jcg>>

NextPtw ==
    \/ PtwRegister
    \/ PtwLift
    \/ PtwApply
SpecPtw == Init /\ [][NextPtw]_vars

\* C23: the function of a lifted node is the one the registry held under the
\* node's name when the node was built: a call of the node gives what the
\* function registered at construction gives, whatever the registry holds
\* at the time of the call.
C23_ResolvedAtConstruction ==
    reg.call.done => reg.call.out = Field_ptw(reg.built, reg.node.funcname, reg.call.x)
-----------------------------------------------------------------------------
(* Elementwise functions of a Linearization at points where the derivative *)
(* is not a number (test_special_gradients): a Linearization is made at a   *)
(* point with entries below, at and above 0 and a function is applied to    *)
(* it, directly or as the node of a graph.  Nothing is left out for being   *)
(* not a number.                                                            *)

GradVals == {-2, -1, 0, 1, 2}
GradFields == FieldsOn(DomD, GradVals) \cup FieldsOn(DomAB, GradVals)

GradStep(act, a, op, r) ==
    /\ lact' = [act |-> act, a |-> a, b |-> NoObj, op |-> op]
    /\ lerr' = r.err
    /\ lx' = IF r.err = "" THEN r ELSE lx
    /\ UNCHANGED <<graphVars, makeVars, evalVars, auxVars>>

\* Linearization.make_var(f)
GradMakeVar == \E f \in GradFields, wm \in BOOLEAN :
    /\ lx = NoObj
    /\ GradStep("make_var", FieldObj(f), ErrOp(""), make_var(f, wm))
    /\ UNCHANGED lsteps
\* lx.absolute(), lx.exp()
GradPtw == \E name \in PtwNames :
    /\ lx # NoObj /\ lsteps < MaxLinSteps
    /\ GradStep("ptw", lx, FunctionApplier(lx.val.dom, name), Lin_ptw(lx, name))
    /\ lsteps' = lsteps + 1
\* the node of the function, called on lx
GradNode == \E name \in PtwNames :
    /\ lx # NoObj /\ lsteps < MaxLinSteps
    /\ GradStep("node", lx, FunctionApplier(lx.val.dom, name),
                Call(FunctionApplier(lx.val.dom, name), lx))
    /\ lsteps' = lsteps + 1

NextGrad ==
    \/ GradMakeVar
    \/ GradPtw
    \/ GradNode
SpecGrad == Init /\ [][NextGrad]_vars

\* _lin2grad of the test: the Jacobian applied to the field of ones
lin2grad(x) ==
    [t \in DOMAIN x.jac.tgt |-> VSum(DOMAIN x.jac.dom, [d \in DOMAIN x.jac.dom |-> x.jac.mat[<<t, d>>]])]

-----------------------------------------------------------------------------
(* Operator.partial_insert (test_part_mf_insert): two operators between     *)
(* MultiDomains are built, the second is inserted into the first, and the   *)
(* result is called on a MultiField of its domain.                          *)

\* ScalingOperator(dom, 1).ptw(fn).ducktape(kin).ducktape_left(kout)
Renamed(fn, kin, dt, kout) ==
    matmul(FieldAdapter(kout, dt, FALSE),
           matmul(FunctionApplier(MkDT(dt), fn), FieldAdapter(kin, dt, TRUE)))

\* the operators something is inserted into
InsertInto ==
    { OpSum_init(Renamed("exp", "a", "D", "a1"), Renamed("exp", "b", "D", "b1")),
      Renamed("exp", "a", "D", "d"),
      Renamed("exp", "a", "D", "a1"),
      FunctionApplier(DomD, "absolute") }
\* the operators that are inserted
Inserted ==
    { OpSum_init(Renamed("absolute", "c", "D", "a"), Renamed("absolute", "d0", "D", "d")),
      OpSum_init(Renamed("absolute", "b", "D", "a"), Renamed("absolute", "d0", "D", "d")),
      Renamed("absolute", "c", "D", "a"),
      Renamed("absolute", "c", "D", "d"),
      Renamed("absolute", "c", "E", "a"),
      FieldAdapter("a", "D", TRUE) }
InsertVals == {-1, 0, 2}

InsertPush ==
    /\ Len(stack) < 2 /\ last = NoLast
    /\ \E l \in (IF stack = <<>> THEN InsertInto ELSE Inserted) :
          stack' = Append(stack, l)
    /\ err' = "" /\ last' = NoLast /\ res' = NoRes
    /\ UNCHANGED <<linVars, makeVars, evalVars, auxVars>>
\* Below.partial_insert(Top)
InsertBuild ==
    /\ Len(stack) = 2
    /\ Build("partial_insert", partial_insert(Below, Top))
\* the result is called on a MultiField of its domain
InsertCall ==
    /\ Len(stack) = 1 /\ last.act = "partial_insert" /\ res = NoRes
    /\ \E f \in FieldsOn(Top.dom, InsertVals) :
          res' = [kind |-> "insert", x |-> FieldObj(f), out |-> Call(Top, FieldObj(f)),
                  simp |-> NoSimp]
    /\ UNCHANGED <<stack, err, last, linVars, makeVars, evalVars, auxVars>>

NextInsert ==
    \/ InsertPush
    \/ InsertBuild
    \/ InsertCall
SpecInsert == Init /\ [][NextInsert]_vars

\* the keys b produces that a does not consume, and the keys a consumes
\* that b does not produce
PassedOut(a, b) == DOMAIN b.tgt \ DOMAIN a.dom
PassedIn(a, b) == DOMAIN a.dom \ DOMAIN b.tgt
\* what a is fed with for the input x of a.partial_insert(b)
FedToA(a, b, x) ==
    LET y == Call(b, FieldObj(extract(x, b.dom))).val
    IN MkField(a.dom, [k \in DOMAIN a.dom |-> IF k \in DOMAIN b.tgt THEN y.val[k] ELSE x.val[k]])

\* C25: for op = a.partial_insert(b), the domain of op is b.domain united
\* with the keys of a.domain that b does not produce, its target is a.target
\* united with the keys of b.target that a does not consume, and a key that
\* is passed through appears in the result with exactly the value it had
\* when it came out of b.
C25_PartialInsert ==
    /\ last.act = "partial_insert" /\ err = "" =>
          /\ Top.dom = UnionMap(last.b.dom, Restrict(last.a.dom, PassedIn(last.a, last.b)))
          /\ Top.tgt = UnionMap(last.a.tgt, Restrict(last.b.tgt, PassedOut(last.a, last.b)))
    /\ res.kind = "insert" =>
          /\ res.out.err = ""
          /\ \A k \in PassedOut(last.a, last.b) :
                res.out.val.val[k] = Call(last.b, FieldObj(extract(res.x.val, last.b.dom))).val.val[k]
\* the part that holds: domain and target are the unions, and the keys a
\* alone produces carry what a gives on the outputs of b and the passed-in keys
C25_DomainsAndFeed ==
    /\ last.act = "partial_insert" /\ err = "" =>
          /\ Top.dom = UnionMap(last.b.dom, Restrict(last.a.dom, PassedIn(last.a, last.b)))
          /\ Top.tgt = UnionMap(last.a.tgt, Restrict(last.b.tgt, PassedOut(last.a, last.b)))
    /\ res.kind = "insert" =>
          /\ res.out.err = ""
          /\ \A k \in DOMAIN last.a.tgt \ PassedOut(last.a, last.b) :
                res.out.val.val[k] = Call(last.a, FieldObj(FedToA(last.a, last.b, res.x.val))).val.val[k]
          /\ \A k \in PassedOut(last.a, last.b) \ DOMAIN last.a.tgt :
                res.out.val.val[k] = Call(last.b, FieldObj(extract(res.x.val, last.b.dom))).val.val[k]
-----------------------------------------------------------------------------
(* Claims about the items of a BlockDiagonalOperator (under SpecViews) *)

\* the keys of the domain for which the dictionary of the constructor has no item
MissingKeys(args) == DOMAIN args.domain \ DOMAIN args.ops

\* C26: constructing a BlockDiagonalOperator with a dictionary that lacks
\* some key of the domain succeeds, and an item that is missing or None acts
\* as the unity operator: apply leaves the sub-field of that key unchanged
\* in every mode the operator supports.
C26_MissingIsUnity ==
    /\ vact.act = "new" /\ MissingKeys(vact.before) # {} =>
          /\ vout.err = ""
          /\ view.cls = "BlockDiagonalOperator" /\ view.domain = vact.before.domain
    /\ vact.act = "apply" /\ vout.err = "" /\ view.cls = "BlockDiagonalOperator" =>
          \A k \in DOMAIN view.domain :
             (k \notin DOMAIN view.ops \/ view.ops[k] = "None") => vout.val.val[k] = vact.x.val[k]
\* the part that holds: an item that is None acts as the unity operator
C26_NoneIsUnity ==
    vact.act = "apply" /\ vout.err = "" /\ view.cls = "BlockDiagonalOperator" =>
       \A k \in DOMAIN view.domain : view.ops[k] = "None" => vout.val.val[k] = vact.x.val[k]
-----------------------------------------------------------------------------
(* ConjugateGradient.__call__ (nifty6/minimization/conjugate_gradient.py).  *)
(* The energy, its metric and the preconditioner are any: the products      *)
(* gamma and curv are drawn from numbers below, at and above 0, and the     *)
(* controller answers anything.  cg.pc is the line the call stands at.      *)

CgStatus == {CONVERGED, CONTINUE, ERROR}
CgProducts == {-1, 0, 1, 2}
nreset == 2

CgReturn(status) == [cg EXCEPT !.pc = "returned", !.status = status]
CgFrame == UNCHANGED <<oldVars, ecall, reg, nuts, jcg>>

\* lines 53-55: status = controller.start(energy)
CgStart == \E status \in CgStatus :
    /\ cg.pc = "idle"
    /\ cg' = IF status # CONTINUE THEN [CgReturn(status) EXCEPT !.answer = status]
             ELSE [cg EXCEPT !.pc = "gradient", !.answer = status]
    /\ CgFrame

\* lines 57-62: previous_gamma = r.vdot(d).real
FirstGammaExit(previous_gamma) == IF previous_gamma = 0 THEN CONVERGED ELSE CONTINUE
CgGradient == \E g \in CgProducts :
    /\ cg.pc = "gradient"
    /\ cg' = IF FirstGammaExit(g) # CONTINUE
             THEN [CgReturn(FirstGammaExit(g)) EXCEPT !.previous_gamma = g]
             ELSE [cg EXCEPT !.pc = "loop", !.previous_gamma = g]
    /\ CgFrame

\* alpha = previous_gamma/curv is below 0
AlphaNegative(previous_gamma, curv) == previous_gamma * curv < 0
\* lines 66-75: the exits on curv and alpha
CurvExit(previous_gamma, curv) ==
    IF curv = 0 THEN ERROR
    ELSE IF AlphaNegative(previous_gamma, curv) THEN ERROR
    ELSE CONTINUE
\* lines 66-84: curv = d.vdot(q).real, alpha, and the step to the new position
CgCurv == \E c \in CgProducts :
    /\ cg.pc = "loop" /\ cg.iters < MaxCgIters
    /\ cg' = IF CurvExit(cg.previous_gamma, c) # CONTINUE
             THEN [CgReturn(CurvExit(cg.previous_gamma, c)) EXCEPT !.curv = c]
             ELSE [cg EXCEPT !.pc = "gamma", !.curv = c, !.iters = @ + 1,
                             !.ii = IF @ + 1 < nreset THEN @ + 1 ELSE 0]
    /\ CgFrame

\* lines 88-94: the exits on gamma
GammaExitMutZeroGoesOn(gamma) == IF gamma < 0 THEN ERROR ELSE CONTINUE
GammaExit(gamma) ==
    IF gamma < 0 THEN ERROR
    ELSE IF gamma = 0 THEN CONVERGED
    ELSE CONTINUE
\* lines 86-94: gamma = r.vdot(s).real
CgGamma == \E g \in CgProducts :
    /\ cg.pc = "gamma"
    /\ cg' = IF GammaExit(g) # CONTINUE THEN [CgReturn(GammaExit(g)) EXCEPT !.gamma = g]
             ELSE [cg EXCEPT !.pc = "check", !.gamma = g]
    /\ CgFrame

\* lines 96-102: status = controller.check(energy), then the next direction
CgCheck == \E status \in CgStatus :
    /\ cg.pc = "check"
    /\ cg' = IF status # CONTINUE THEN [CgReturn(status) EXCEPT !.answer = status]
             ELSE [cg EXCEPT !.pc = "loop", !.answer = status, !.previous_gamma = cg.gamma,
                             !.curv = Unset, !.gamma = Unset]
    /\ CgFrame

NextCg ==
    \/ CgStart
    \/ CgGradient
    \/ CgCurv
    \/ CgGamma
    \/ CgCheck
SpecCg == Init /\ [][NextCg]_vars

\* C27: the call never returns CONTINUE; it has returned the controller's
\* answer once start or check answered something other than CONTINUE, it
\* has returned CONVERGED once the residual product gamma is exactly 0, and
\* it has returned ERROR once the curvature is 0, the step length alpha is
\* negative or gamma is negative; and it has not returned otherwise.
C27_CgStatus ==
    LET returned_ == cg.pc = "returned"
        curvBad == cg.curv # Unset /\ (cg.curv = 0 \/ cg.previous_gamma * cg.curv < 0)
        gammaNeg == cg.gamma # Unset /\ cg.gamma < 0
        gammaZero == \/ cg.gamma = 0
                     \/ cg.previous_gamma = 0
    IN /\ returned_ => cg.status \in {CONVERGED, ERROR}
       /\ cg.answer \in {CONVERGED, ERROR} => returned_ /\ cg.status = cg.answer
       /\ gammaZero => returned_ /\ cg.status = CONVERGED
       /\ curvBad => returned_ /\ cg.status = ERROR
       /\ gammaNeg => returned_ /\ cg.status = ERROR
       /\ returned_ => cg.answer \in {CONVERGED, ERROR} \/ gammaZero \/ curvBad \/ gammaNeg
\* in the second pass through the loop, after the controller had answered
\* CONTINUE twice, gamma came out as exactly 0 and the call returned CONVERGED
C27_Witness ==
    /\ cg.pc = "returned" /\ cg.status = CONVERGED
    /\ cg.iters = 2 /\ cg.answer = CONTINUE /\ cg.gamma = 0 /\ cg.curv > 0
-----------------------------------------------------------------------------
(* generate_nuts_sample (src/hmc.py): the trajectory tree is doubled until  *)
(* it turns or is too deep.  A tree is its depth, the number of its points  *)
(* and whether it is turning; the direction of each doubling and the        *)
(* outcome of each U-turn test are any.  nuts.steps counts the calls of the *)
(* stepper, those for subtrees that are thrown away included.               *)

RECURSIVE TwoTo(_)
\* 2**n
TwoTo(n) == IF n = 0 THEN 1 ELSE 2 * TwoTo(n - 1)

NutsFrame == UNCHANGED <<oldVars, ecall, reg, cg, jcg>>

\* line 321: the depth 0 tree of the initial point
NutsBegin ==
    /\ nuts.pc = "idle"
    /\ nuts' = [nuts EXCEPT !.pc = "loop", !.depth = 0, !.points = 1]
    /\ NutsFrame

\* _cont_cond of generate_nuts_sample (lines 328-330)
NutsCont(tree_depth, stop) == ~stop /\ tree_depth <= maxdepth

\* lines 334-339, 404-416: a direction is drawn and the first step of the
\* new subtree is made
NutsDirection == \E go_right \in BOOLEAN :
    /\ nuts.pc = "loop" /\ NutsCont(nuts.depth, nuts.stop)
    /\ nuts' = [nuts EXCEPT !.pc = "build", !.go_right = go_right, !.n = 1,
                            !.sub_turning = FALSE, !.steps = @ + 1]
    /\ NutsFrame

\* _cont_cond of iterative_build_tree (lines 462-464)
BuildCont(n, depth, turning) == n < TwoTo(depth) /\ ~turning
\* amend_incomplete_tree (lines 418-460): one more step; after an odd number
\* of steps the U-turn tests are made
NutsAmend == \E uturn \in BOOLEAN :
    /\ nuts.pc = "build" /\ BuildCont(nuts.n, nuts.depth, nuts.sub_turning)
    /\ nuts.n % 2 = 0 => ~uturn
    /\ nuts' = [nuts EXCEPT !.n = @ + 1, !.sub_turning = uturn, !.steps = @ + 1]
    /\ NutsFrame

\* merge_trees (lines 502-524): the tree of both, one level deeper
merge_trees(current_subtree, new_points, uturn) ==
    [current_subtree EXCEPT !.depth = @ + 1, !.points = @ + new_points, !.turning = uturn]
\* lines 342-351: the subtree is complete; it is merged unless it is turning
NutsMerge == \E uturn \in BOOLEAN :
    /\ nuts.pc = "build" /\ ~BuildCont(nuts.n, nuts.depth, nuts.sub_turning)
    /\ nuts.sub_turning => ~uturn
    /\ LET tree == IF nuts.sub_turning THEN nuts ELSE merge_trees(nuts, nuts.n, uturn)
       IN nuts' = [tree EXCEPT !.pc = "loop", !.stop = nuts.sub_turning \/ tree.turning]
    /\ NutsFrame

\* lines 353-359: the loop is left and the tree is returned
NutsReturn ==
    /\ nuts.pc = "loop" /\ ~NutsCont(nuts.depth, nuts.stop)
    /\ nuts' = [nuts EXCEPT !.pc = "returned"]
    /\ NutsFrame

NextNuts ==
    \/ NutsBegin
    \/ NutsDirection
    \/ NutsAmend
    \/ NutsMerge
    \/ NutsReturn
SpecNuts == Init /\ [][NextNuts]_vars

\* C28: for every sequence of directions and turning outcomes, the tree that
\* generate_nuts_sample returns has depth at most maxdepth and holds at most
\* 2**maxdepth points.
C28_AtMostMaxdepth ==
    nuts.pc = "returned" => nuts.depth <= maxdepth /\ nuts.points <= TwoTo(maxdepth)
\* what holds: the returned tree is at most one level deeper than maxdepth
\* and holds 2**depth points
C28_AtMostOneDeeper ==
    nuts.pc = "returned" => nuts.depth <= maxdepth + 1 /\ nuts.points = TwoTo(nuts.depth)
-----------------------------------------------------------------------------
(* Claims about the domain and target of a folded operator (under Spec) *)

\* C29: for every graph and every constant input, None, on the whole domain
\* or on a part of it, the operator that simplify_for_constant_input returns
\* has the domain and the target of the graph.
C29_FoldKeepsDomains ==
    res.kind \in {"simplify", "simplifyNone"} /\ res.simp.err = "" =>
        /\ res.simp.op.err = ""
        /\ res.simp.op.dom = Top.dom
        /\ res.simp.op.tgt = Top.tgt
\* a product on the MultiDomain {a, b} with a DomainTuple target was folded
\* for a constant on the key a alone, and the operator returned is another
\* graph, which contains a _ConstantOperator
C29_Witness ==
    /\ res.kind = "simplify" /\ res.simp.err = ""
    /\ Top.kind = "_OpProd" /\ Top.dom = DomAB /\ IsDT(Top.tgt)
    /\ DOMAIN res.x.val.dom = {"a"}
    /\ res.simp.op # Top
    /\ \E i \in 1..Len(res.simp.op.ops) : res.simp.op.ops[i].kind = "_ConstantOperator"
-----------------------------------------------------------------------------
(* The jax solver _cg (src/re/conjugate_gradient.py).  The matrix and the   *)
(* right-hand side are any: in every pass the sign of the curvature, whether *)
(* gamma is tiny, whether the residual norm is below resnorm, where the      *)
(* energy change lies and whether the time is up are free choices.  jcg.why  *)
(* names the line that ended the call.                                       *)

JcgFrame == UNCHANGED <<oldVars, ecall, reg, cg, nuts>>
\* CGResults(..., info=info, nit=i, success=info == 0)
CGResults(s, info, why) ==
    [s EXCEPT !.pc = "returned", !.info = info, !.success = (info = 0), !.why = why]
JcgRaise(s, why) == [s EXCEPT !.pc = "raised", !.why = why]

\* lines 71-106: the arguments, the first residual, and the return on a zero one
JcgCall ==
    \E maxiter_ \in 0..MaxJcgIter, miniter \in 0..2, within_newton \in BOOLEAN,
       crit \in {"resnorm", "absdelta", "both"}, previous_gamma \in {0, 1} :
        /\ jcg.pc = "idle"
        /\ LET s == [jcg EXCEPT !.maxiter = maxiter_, !.miniter = miniter,
                                !.within_newton = within_newton,
                                !.resnorm = (crit # "absdelta"),
                                !.absdelta = (crit # "resnorm"),
                                !.info = -1, !.i = 0]
           IN jcg' = IF previous_gamma = 0 THEN CGResults(s, 0, "zero residual")
                     ELSE [s EXCEPT !.pc = "loop"]
        /\ JcgFrame

\* lines 108-173: one pass of the loop for the pass number i
JcgPass(s, i, curv, timeup, tiny, below, ediff) ==
    LET t == [s EXCEPT !.i = i]
    IN IF curv = 0
       THEN (IF s.within_newton THEN CGResults(t, 0, "zero curvature")
             ELSE JcgRaise(t, "zero curvature"))
       ELSE IF curv < 0
       THEN (IF s.within_newton THEN CGResults(t, 0, "negative curvature")
             ELSE JcgRaise(t, "negative curvature"))
       ELSE IF timeup THEN CGResults(t, i, "time")
       ELSE IF tiny THEN CGResults(t, 0, "gamma")
       ELSE IF s.resnorm /\ below /\ i >= s.miniter THEN CGResults(t, 0, "resnorm")
       ELSE IF s.absdelta /\ ediff = "increased" THEN JcgRaise(t, "energy increased")
       ELSE IF s.absdelta /\ ediff = "below" /\ i >= s.miniter THEN CGResults(t, 0, "absdelta")
       ELSE t

\* for i in range(1, maxiter + 1): the next pass
JcgIter ==
    \E curv \in {-1, 0, 1}, timeup \in BOOLEAN, tiny \in BOOLEAN, below \in BOOLEAN,
       ediff \in {"increased", "below", "above"} :
        /\ jcg.pc = "loop" /\ jcg.i < jcg.maxiter
        /\ jcg' = JcgPass(jcg, jcg.i + 1, curv, timeup, tiny, below, ediff)
        /\ JcgFrame

\* lines 174-178: the else of the for loop, taken when the range is used up
JcgLimit ==
    /\ jcg.pc = "loop" /\ jcg.i >= jcg.maxiter
    /\ jcg' = CGResults(jcg, jcg.i, "iteration limit")
    /\ JcgFrame

NextJcg ==
    \/ JcgCall
    \/ JcgIter
    \/ JcgLimit
SpecJcg == Init /\ [][NextJcg]_vars

Criteria == {"zero residual", "gamma", "resnorm", "absdelta"}

\* C30: _cg reports success = True with info = 0 only when a convergence
\* criterion was met (zero initial residual, residual below resnorm or
\* energy change below absdelta after at least miniter passes, gamma tiny),
\* and when it stops at the iteration limit, for every maxiter >= 0, it
\* reports success = False with an info that is not 0.
C30_SuccessMeansConverged ==
    jcg.pc = "returned" =>
        /\ jcg.success <=> jcg.info = 0
        /\ jcg.success => jcg.why \in Criteria
        /\ jcg.why \in {"resnorm", "absdelta"} => jcg.i >= jcg.miniter
        /\ jcg.why = "iteration limit" => ~jcg.success /\ jcg.info # 0
\* what holds: with an iteration limit of at least 1 and outside a Newton
\* solver, success is reported for a criterion only and the limit is reported
\* with info = maxiter
C30_PositiveLimit ==
    jcg.pc = "returned" /\ jcg.maxiter >= 1 /\ ~jcg.within_newton =>
        /\ jcg.success <=> jcg.info = 0
        /\ jcg.success => jcg.why \in Criteria
        /\ jcg.why \in {"resnorm", "absdelta"} => jcg.i >= jcg.miniter
        /\ jcg.why = "iteration limit" => ~jcg.success /\ jcg.info = jcg.maxiter

====
